---- MODULE Spec2Model ----
(***************************************************************************)
(* A model of the read-only analysis layer of contrib/mcp/ara_mcp.py:      *)
(* the identifier resolver (parse_ara_url, extract_id), the batch fetch    *)
(* coordinator (ARAClient.batch_get) and the troubleshooting pipelines.    *)
(*                                                                         *)
(* Text is modelled as a sequence of one-character strings, so that the    *)
(* string operations of the source (strip, isdigit, urlparse, rstrip,      *)
(* the path pattern, int) are computed character by character.             *)
(***************************************************************************)
EXTENDS Integers, Sequences, FiniteSets, TLC

VARIABLES
    env_server,     \* the value of ARA_API_SERVER
    arg,            \* the "id" argument of a call: [t |-> "str" or "int", v |-> ...]
    r_pc,           \* resolver: "ready" or "done"
    r_op,           \* resolver: the operation that ran
    r_out,          \* resolver: what the operation returned or raised
    b_pc,           \* batch_get: "idle", "gathering", "returned" or "raised"
    b_pks,          \* batch_get: the list of ids it was called with
    b_task,         \* batch_get: the state and result of each _fetch_one task
    b_requests,     \* batch_get: the number of requests sent to the remote API
    b_out,          \* batch_get: the mapping it returned
    b_reordered,    \* history: some task completed before an earlier one of the list
    h_pc,           \* troubleshoot_host: "start", "listing", "batching" or "done"
    h_held,         \* troubleshoot_host: the failed and unreachable results the server holds
    h_all,          \* troubleshoot_host: all_failures, the ids of the two pages concatenated
    h_answers,      \* troubleshoot_host: each request sent, with the answer it received
    h_reply,        \* troubleshoot_host: "ok" or the reply kind of the exception
    h_report,       \* troubleshoot_host: the report returned
    t_pc,           \* troubleshoot_playbook: "start", "listing", "batching", "joining" or "done"
    t_include_ignored,  \* troubleshoot_playbook: the include_ignored argument
    t_held,         \* troubleshoot_playbook: the failed results the server holds, in API order
    t_failed,       \* troubleshoot_playbook: failed_results, the ids the list call returned
    t_full,         \* troubleshoot_playbook: full_results, the batch-fetched records
    t_requests,     \* troubleshoot_playbook: the requests and batches sent so far
    t_outcomes,     \* troubleshoot_playbook: each request or batch, with the answers it received
    t_gather,       \* troubleshoot_playbook: the files and hosts batches and what they returned
    t_reply,        \* troubleshoot_playbook: "ok" or the reply kind of the exception
    t_report,       \* troubleshoot_playbook: the report returned
    p_pc,           \* analyze_performance: "start", "related", "cross_list", "cross_batch", "own_list", "own_batch" or "done"
    p_top_n,        \* analyze_performance: the top_n argument
    p_held,         \* analyze_performance: what the server holds: the playbook's path, the runs of that path, the playbook's results
    p_related,      \* analyze_performance: related_playbooks, as the list call returned them
    p_rp_results_map,   \* analyze_performance: rp_results_map, the results listed for each related run
    p_results,      \* analyze_performance: results, the sample listed for the playbook
    p_all_full_results, \* analyze_performance: all_full_results, the batch-fetched records of the sample
    p_requests,     \* analyze_performance: the requests sent so far
    p_answers,      \* analyze_performance: the answers to its single requests
    p_reply,        \* analyze_performance: "ok" or the reply kind of the exception
    p_report,       \* analyze_performance: the report built so far
    c_pc,           \* a tool call: "called", "fetching" or "done"
    c_tool,         \* a tool call: the name of the tool
    c_has_id,       \* a tool call: whether the arguments hold "id"
    c_outcome,      \* a tool call: what the remote answered to its request, "none" before
    c_reply,        \* a tool call: "ok" or the kind of the error reply
    k_main,         \* the process: "serving" or "terminated"
    k_client,       \* ARAClient._client: 0 for None, or the number of the handle
    k_open,         \* the handles created and not closed
    k_created,      \* how many handles have been created
    k_req           \* the requests: where each is, the handle it was sent on, its answer

rvars == <<env_server, arg, r_pc, r_op, r_out>>
bvars == <<b_pc, b_pks, b_task, b_requests, b_out, b_reordered>>

hvars == <<h_pc, h_held, h_all, h_answers, h_reply, h_report>>

tvars ==
    <<t_pc, t_include_ignored, t_held, t_failed, t_full, t_gather, t_requests, t_outcomes,
      t_reply, t_report>>

pvars ==
    <<p_pc, p_top_n, p_held, p_related, p_rp_results_map, p_results, p_all_full_results,
      p_requests, p_answers, p_reply, p_report>>

cvars == <<c_pc, c_tool, c_has_id, c_outcome, c_reply>>

kvars == <<k_main, k_client, k_open, k_created, k_req>>

vars == <<rvars, bvars, hvars, tvars, pvars, cvars, kvars>>

\* What the actions of each component leave alone.
notResolver == <<bvars, hvars, tvars, pvars, cvars, kvars>>
notBatch == <<rvars, hvars, tvars, pvars, cvars, kvars>>
notHost == <<rvars, bvars, tvars, pvars, cvars, kvars>>
notPlaybook == <<rvars, bvars, hvars, pvars, cvars, kvars>>
notPerformance == <<rvars, bvars, hvars, tvars, cvars, kvars>>
notCall == <<rvars, bvars, hvars, tvars, pvars, kvars>>
notClient == <<rvars, bvars, hvars, tvars, pvars, cvars>>

----------------------------------------------------------------------------
(* Characters and the str methods the source uses.                         *)

DigitSeq == <<"0", "1", "2", "3", "4", "5", "6", "7", "8", "9">>
LowerSeq ==
    <<"a", "b", "c", "d", "e", "f", "g", "h", "i", "j", "k", "l", "m",
      "n", "o", "p", "q", "r", "s", "t", "u", "v", "w", "x", "y", "z">>
UpperSeq ==
    <<"A", "B", "C", "D", "E", "F", "G", "H", "I", "J", "K", "L", "M",
      "N", "O", "P", "Q", "R", "S", "T", "U", "V", "W", "X", "Y", "Z">>

Elems(s) == {s[i] : i \in 1..Len(s)}

Digits == Elems(DigitSeq)
Letters == Elems(LowerSeq) \cup Elems(UpperSeq)
Whitespace == {" "}

\* The regular expression class \w.
WordChars == Letters \cup Digits \cup {"_"}

\* urllib.parse.scheme_chars.
scheme_chars == Letters \cup Digits \cup {"+", "-", "."}

\* str.find for a set of characters: the first index at or after `from`
\* holding one of them, 0 when there is none.
FindFrom(s, chars, from) ==
    LET hits == {i \in from..Len(s) : s[i] \in chars}
    IN  IF hits = {} THEN 0 ELSE CHOOSE i \in hits : \A j \in hits : i <= j

Find(s, c) == FindFrom(s, {c}, 1)

\* s[from:], 1-based.
Suffix(s, from) == SubSeq(s, from, Len(s))

\* str.lower on one character, then on a string.
LowerChar(c) ==
    IF c \in Elems(UpperSeq)
    THEN LowerSeq[CHOOSE i \in 1..Len(UpperSeq) : UpperSeq[i] = c]
    ELSE c

lower(s) == [i \in 1..Len(s) |-> LowerChar(s[i])]

\* str.rstrip(chars) and str.lstrip(chars).
rstrip(s, chars) ==
    LET keep == {i \in 1..Len(s) : s[i] \notin chars}
    IN  IF keep = {} THEN <<>>
        ELSE SubSeq(s, 1, CHOOSE i \in keep : \A j \in keep : j <= i)

lstrip(s, chars) ==
    LET keep == {i \in 1..Len(s) : s[i] \notin chars}
    IN  IF keep = {} THEN <<>>
        ELSE Suffix(s, CHOOSE i \in keep : \A j \in keep : i <= j)

\* str.strip().
strip(s) == rstrip(lstrip(s, Whitespace), Whitespace)

\* str.isdigit(): not empty and every character a digit.
isdigit(s) == s # <<>> /\ \A i \in 1..Len(s) : s[i] \in Digits

DigitValue(c) == (CHOOSE i \in 1..Len(DigitSeq) : DigitSeq[i] = c) - 1

\* int(s) for a string of decimal digits.
RECURSIVE int(_)
int(s) ==
    IF s = <<>> THEN 0
    ELSE 10 * int(SubSeq(s, 1, Len(s) - 1)) + DigitValue(s[Len(s)])

----------------------------------------------------------------------------
(* urllib.parse.urlparse, for text without ";", "[", "]" and control       *)
(* characters: scheme, then netloc, then fragment, then query.             *)

SplitScheme(url) ==
    LET i == Find(url, ":")
    IN  IF /\ i > 1
           /\ url[1] \in Letters
           /\ \A k \in 1..(i - 1) : url[k] \in scheme_chars
        THEN [scheme |-> lower(SubSeq(url, 1, i - 1)), rest |-> Suffix(url, i + 1)]
        ELSE [scheme |-> <<>>, rest |-> url]

SplitNetloc(url) ==
    IF Len(url) >= 2 /\ url[1] = "/" /\ url[2] = "/"
    THEN LET d == FindFrom(url, {"/", "?", "#"}, 3)
             delim == IF d = 0 THEN Len(url) + 1 ELSE d
         IN  [netloc |-> SubSeq(url, 3, delim - 1), rest |-> Suffix(url, delim)]
    ELSE [netloc |-> <<>>, rest |-> url]

\* "a<sep>b" -> <<a, b>> at the first sep; <<s, "">> when there is none.
SplitFirst(s, sep) ==
    LET i == Find(s, sep)
    IN  IF i = 0 THEN <<s, <<>>>>
        ELSE <<SubSeq(s, 1, i - 1), Suffix(s, i + 1)>>

urlparse(url) ==
    LET s == SplitScheme(url)
        n == SplitNetloc(s.rest)
        f == SplitFirst(n.rest, "#")
        q == SplitFirst(f[1], "?")
    IN  [scheme |-> s.scheme, netloc |-> n.netloc, path |-> q[1],
         query |-> q[2], fragment |-> f[2]]

----------------------------------------------------------------------------
(* URL building and parsing.                                               *)

get_web_base == rstrip(env_server, {"/"})

\* str(n) for an integer: its decimal digits, after "-" when it is negative.
RECURSIVE str(_)
str(n) ==
    IF n < 0 THEN <<"-">> \o str(0 - n)
    ELSE IF n < 10 THEN <<DigitSeq[n + 1]>>
    ELSE str(n \div 10) \o <<DigitSeq[(n % 10) + 1]>>

\* The path segment of each resource kind.
KindText ==
    [playbooks |-> <<"p", "l", "a", "y", "b", "o", "o", "k", "s">>,
     tasks |-> <<"t", "a", "s", "k", "s">>,
     hosts |-> <<"h", "o", "s", "t", "s">>,
     results |-> <<"r", "e", "s", "u", "l", "t", "s">>,
     files |-> <<"f", "i", "l", "e", "s">>]

Kinds == DOMAIN KindText

\* f"{get_web_base()}/<kind>/{pk}.html"
PageUrl(kind, pk) == get_web_base \o <<"/">> \o KindText[kind] \o <<"/">> \o str(pk) \o <<".", "h", "t", "m", "l">>

playbook_url(pk) == PageUrl("playbooks", pk)
task_url(pk) == PageUrl("tasks", pk)
host_url(pk) == PageUrl("hosts", pk)
result_url(pk) == PageUrl("results", pk)

\* line = 0 stands for None; 0 itself is as falsy.
file_url(pk, line) ==
    IF line # 0 THEN PageUrl("files", pk) \o <<"#", "l", "i", "n", "e", "-">> \o str(line)
    ELSE PageUrl("files", pk)

\* The URL the builder of a kind returns.
BuildUrl(kind, pk, line) ==
    CASE kind = "playbooks" -> playbook_url(pk)
      [] kind = "tasks" -> task_url(pk)
      [] kind = "hosts" -> host_url(pk)
      [] kind = "results" -> result_url(pk)
      [] kind = "files" -> file_url(pk, line)

\* f"{scheme}://{netloc}"
Origin(p) == p.scheme \o <<":", "/", "/">> \o p.netloc

\* "ok", or "OriginMismatch" for the ValueError it raises.
validate_url_origin_unchecked(url) == "ok"

validate_url_origin(url) ==
    LET parsed == urlparse(url)
    IN  IF parsed.scheme = <<>> \/ parsed.netloc = <<>> THEN "ok"
        ELSE IF lower(Origin(parsed)) # lower(Origin(urlparse(get_web_base)))
             THEN "OriginMismatch"
             ELSE "ok"

\* re.match(r"^/(\w+)/(\d+)(?:\.html)?$", path): the two groups, or no match.
DotHtml == <<".", "h", "t", "m", "l">>

MatchPath(path) ==
    IF path = <<>> \/ path[1] # "/" THEN [matched |-> FALSE]
    ELSE LET rest == Suffix(path, 2)
             i == Find(rest, "/")
         IN  IF i <= 1 THEN [matched |-> FALSE]
             ELSE LET word == SubSeq(rest, 1, i - 1)
                      tail == Suffix(rest, i + 1)
                      n == Len(tail)
                      num == IF n > 5 /\ SubSeq(tail, n - 4, n) = DotHtml
                             THEN SubSeq(tail, 1, n - 5)
                             ELSE tail
                  IN  IF (\A k \in 1..Len(word) : word[k] \in WordChars) /\ isdigit(num)
                      THEN [matched |-> TRUE, resource |-> word, digits |-> num]
                      ELSE [matched |-> FALSE]

Ok(resource, id) == [tag |-> "ok", resource |-> resource, id |-> id]
ValueError(why) == [tag |-> "ValueError", why |-> why]

\* The same steps with the path matched before the origin is looked at.
ParseUrlPathFirst(url) ==
    LET m == MatchPath(rstrip(urlparse(url).path, {"/"}))
    IN  IF ~m.matched THEN ValueError("Unparsable")
        ELSE IF validate_url_origin(url) # "ok" THEN ValueError("OriginMismatch")
             ELSE Ok(m.resource, int(m.digits))

\* The steps of parse_ara_url after the numeric check: origin, then path.
ParseUrl(url) ==
    IF validate_url_origin(url) # "ok" THEN ValueError("OriginMismatch")
    ELSE LET m == MatchPath(rstrip(urlparse(url).path, {"/"}))
         IN  IF m.matched THEN Ok(m.resource, int(m.digits))
             ELSE ValueError("Unparsable")

parse_ara_url(url_or_id) ==
    LET s == strip(url_or_id)
    IN  IF isdigit(s) THEN ValueError("NumericId") ELSE ParseUrl(s)

\* extract_id without its numeric-string shortcut.
extract_id_url_only(a) ==
    IF a.t = "int" THEN Ok(<<>>, a.v) ELSE parse_ara_url(strip(a.v))

\* The id (with the resource parse_ara_url found, which extract_id drops:
\* <<>> when the argument was not a URL), or the ValueError.
extract_id(a) ==
    IF a.t = "int" THEN Ok(<<>>, a.v)
    ELSE LET s == strip(a.v)
         IN  IF isdigit(s) THEN Ok(<<>>, int(s)) ELSE parse_ara_url(s)

----------------------------------------------------------------------------
(* The tool router: the exception a handler raises becomes a reply kind.   *)

ReplyKind(exc) ==
    CASE exc = "LookupError" -> "Not found"
      [] exc = "KeyError" -> "Not found"
      [] exc = "JSONDecodeError" -> "Invalid input"
      [] exc = "ConnectionError" -> "Connection error"
      [] exc = "TimeoutError" -> "Timeout"
      [] exc = "PermissionError" -> "Authentication/authorization error"
      [] exc = "ValueError" -> "Invalid input"
      [] exc = "HTTPStatusError" -> "API error"
      [] exc = "RuntimeError" -> "Server error"
      [] OTHER -> "Unexpected error"

\* The resource each tool with an "id" argument fetches.
ToolResource ==
    [get_playbook |-> "playbooks", get_task |-> "tasks", get_host |-> "hosts",
     get_result |-> "results", get_file |-> "files",
     troubleshoot_playbook |-> "playbooks", troubleshoot_host |-> "hosts",
     analyze_performance |-> "playbooks"]

IdTools == DOMAIN ToolResource

----------------------------------------------------------------------------
(* Inputs of the resolver: text assembled from parts, and integers.        *)

Servers ==
    { <<"h", "t", "t", "p", ":", "/", "/", "a", "b", "/">>,
      <<"H", "T", "T", "P", "S", ":", "/", "/", "A", "b", ":", "8">>,
      <<"h", "t", "t", "p", ":", "/", "/", "c", "d", "/", "x">> }

\* The line argument of file_url: 0 for none.
Lines == {0, 3}

Origins ==
    { <<>>,
      <<"h", "t", "t", "p", ":", "/", "/", "a", "b">>,
      <<"H", "T", "T", "P", ":", "/", "/", "A", "b">>,
      <<"h", "t", "t", "p", "s", ":", "/", "/", "a", "b", ":", "8">>,
      <<"h", "t", "t", "p", "s", ":", "/", "/", "a", "b">>,
      <<"h", "t", "t", "p", ":", "/", "/", "c", "d">>,
      <<"h", "t", "t", "p", ":", "/", "/", "a", "b", ":", "8">>,
      <<"/", "/", "c", "d">>,
      <<"/", "/", "a", "b">>,
      <<"h", "t", "t", "p", ":">>,
      <<"a", "b">> }

Paths ==
    { <<"/", "p", "l", "a", "y", "b", "o", "o", "k", "s", "/", "5">>,
      <<"/", "h", "o", "s", "t", "s", "/", "1", "2">>,
      <<"/", "f", "i", "l", "e", "s", "/", "0", "0", "7">>,
      <<"/", "p", "l", "a", "y", "b", "o", "o", "k", "s", "/">>,
      <<"/", "p", "l", "a", "y", "b", "o", "o", "k", "s", "/", "x", "5">>,
      <<"/", "5">>,
      <<>>,
      <<"/", "a", "-", "b", "/", "5">>,
      <<"5">>,
      <<"/", "p", "_", "1", "/", "3", "0">> }

Suffixes == { <<>>, <<".", "h", "t", "m", "l">>, <<".", "h", "t", "m">> }
Slashes == { <<>>, <<"/">> }
Queries == { <<>>, <<"?", "s", "=", "1", "/", "2">> }
Fragments == { <<>>, <<"#", "l", "i", "n", "e", "-", "3">> }
Pads == { <<>>, <<" ">> }

TextArgs ==
    { o \o p \o x \o sl \o q \o f :
        o \in Origins, p \in Paths, x \in Suffixes,
        sl \in Slashes, q \in Queries, f \in Fragments }
      \cup { <<" ">> \o o \o p \o x \o <<" ">> :
                o \in Origins, p \in Paths, x \in Suffixes }

\* Bare numeric text, with and without surrounding blanks.
NumericArgs ==
    { pad \o d \o pad : pad \in Pads, d \in { <<"5">>, <<"1", "2">>, <<"0", "0", "7">>, <<"4", "3", "0", "7">> } }

IntArgs == {0, 5, 12}

Args ==
    {[t |-> "str", v |-> s] : s \in TextArgs \cup NumericArgs}
        \cup {[t |-> "int", v |-> n] : n \in IntArgs}

----------------------------------------------------------------------------
(* The resolver as a state machine: one call per behaviour.                *)

\* The process and its client handle left out, for the behaviours that do
\* not follow them.
ClientIdle ==
    /\ k_main = "off"
    /\ k_client = 0
    /\ k_open = {}
    /\ k_created = 0
    /\ k_req = <<>>

\* No tool call, for the behaviours that do not make one.
CallIdle ==
    /\ c_pc = "off"
    /\ c_tool = "none"
    /\ c_has_id = FALSE
    /\ c_outcome = "none"
    /\ c_reply = "none"

\* analyze_performance at rest, for the behaviours that do not use it.
PerformanceIdle ==
    /\ p_pc = "off"
    /\ p_top_n = 0
    /\ p_held = [path |-> FALSE, runs |-> <<>>, sample |-> <<>>,
                 arguments |-> [declared |-> FALSE, forks |-> 0]]
    /\ p_related = <<>>
    /\ p_rp_results_map = <<>>
    /\ p_results = <<>>
    /\ p_all_full_results = <<>>
    /\ p_requests = {}
    /\ p_answers = {}
    /\ p_reply = "none"
    /\ p_report = [note |-> "none", cross |-> [kind |-> "none"], own |-> [kind |-> "none"]]

\* troubleshoot_playbook at rest, for the behaviours that do not use it.
PlaybookIdle ==
    /\ t_pc = "off"
    /\ t_include_ignored = FALSE
    /\ t_held = <<>>
    /\ t_failed = <<>>
    /\ t_full = <<>>
    /\ t_gather = [files |-> "idle", hosts |-> "idle", file_cache |-> <<>>, host_cache |-> <<>>]
    /\ t_requests = {}
    /\ t_outcomes = {}
    /\ t_reply = "none"
    /\ t_report = [kind |-> "none"]

\* troubleshoot_host at rest, for the behaviours that do not use it.
HostIdle ==
    /\ h_pc = "off"
    /\ h_held = [failed |-> 0, unreachable |-> 0]
    /\ h_all = <<>>
    /\ h_answers = {}
    /\ h_reply = "none"
    /\ h_report = [kind |-> "none"]

\* The resolver at rest, for the behaviours that do not use it.
ResolverIdle ==
    /\ env_server = <<>>
    /\ arg = [t |-> "int", v |-> 0]
    /\ r_pc = "off"
    /\ r_op = "none"
    /\ r_out = [tag |-> "none"]

\* The batch coordinator at rest, for the behaviours that do not use it.
BatchIdle ==
    /\ b_pc = "off"
    /\ b_pks = <<>>
    /\ b_task = <<>>
    /\ b_requests = 0
    /\ b_out = <<>>
    /\ b_reordered = FALSE

ResolverInit ==
    /\ BatchIdle
    /\ HostIdle
    /\ PlaybookIdle
    /\ PerformanceIdle
    /\ CallIdle
    /\ ClientIdle
    /\ env_server \in Servers
    /\ arg \in Args
    /\ r_pc = "ready"
    /\ r_op = "none"
    /\ r_out = [tag |-> "none"]

\* A direct call of parse_ara_url on a text argument.
CallParseAraUrl ==
    /\ r_pc = "ready"
    /\ arg.t = "str"
    /\ r_out' = parse_ara_url(arg.v)
    /\ r_op' = "parse_ara_url"
    /\ r_pc' = "done"
    /\ UNCHANGED <<env_server, arg, notResolver>>

\* The first statement of a handler, pk = extract_id(args["id"]), as
\* handle_call_tool sees it: the resource and id the handler goes on to
\* fetch, or the reply for the exception.
CallTool(tool) ==
    /\ r_pc = "ready"
    /\ LET pk == extract_id(arg)
       IN  r_out' = IF pk.tag = "ok"
                    THEN [tag |-> "fetch", resource |-> ToolResource[tool],
                          id |-> pk.id, parsed |-> pk.resource]
                    ELSE [tag |-> "reply", kind |-> ReplyKind(pk.tag), why |-> pk.why]
    /\ r_op' = tool
    /\ r_pc' = "done"
    /\ UNCHANGED <<env_server, arg, notResolver>>

\* A URL builder applied to an integer id, and parse_ara_url applied to the
\* URL it returned.
CallBuildUrl(kind, line) ==
    /\ r_pc = "ready"
    /\ arg.t = "int"
    /\ kind # "files" => line = 0
    /\ LET url == BuildUrl(kind, arg.v, line)
       IN  r_out' = [tag |-> "built", kind |-> kind, pk |-> arg.v, line |-> line,
                     url |-> url, parsed |-> parse_ara_url(url)]
    /\ r_op' = "build_url"
    /\ r_pc' = "done"
    /\ UNCHANGED <<env_server, arg, notResolver>>

ResolverNext ==
    \/ CallParseAraUrl
    \/ \E kind \in Kinds, line \in Lines : CallBuildUrl(kind, line)
    \/ \E tool \in IdTools : CallTool(tool)

SpecResolver == ResolverInit /\ [][ResolverNext]_vars

----------------------------------------------------------------------------
(* ARAClient._request: what the transport or the server answers, and the   *)
(* exception it becomes ("none": the decoded body is returned).            *)

Responses ==
    {"ConnectError", "TimeoutException", "RequestError",
     "200", "401", "403", "404", "500", "503", "400"}

\* _request without its clause for the status 403.
RequestRaisesNo403(resp) ==
    CASE resp = "ConnectError" -> "ConnectionError"
      [] resp = "TimeoutException" -> "TimeoutError"
      [] resp = "RequestError" -> "ConnectionError"
      [] resp = "401" -> "PermissionError"
      [] resp = "404" -> "LookupError"
      [] resp \in {"500", "503"} -> "RuntimeError"
      [] resp = "200" -> "none"
      [] resp = "200 not JSON" -> "JSONDecodeError"
      [] OTHER -> "HTTPStatusError"

RequestRaises(resp) ==
    CASE resp = "ConnectError" -> "ConnectionError"
      [] resp = "TimeoutException" -> "TimeoutError"
      [] resp = "RequestError" -> "ConnectionError"
      [] resp = "401" -> "PermissionError"
      [] resp = "403" -> "PermissionError"
      [] resp = "404" -> "LookupError"
      [] resp \in {"500", "503"} -> "RuntimeError"
      [] resp = "200" -> "none"
      [] resp = "200 not JSON" -> "JSONDecodeError"
      [] OTHER -> "HTTPStatusError"

\* The record the remote API holds under an id.
RemoteRecord(pk) == [id |-> pk]

----------------------------------------------------------------------------
(* A call of a tool that takes an "id": handle_call_tool runs the handler, *)
(* which resolves the id and fetches the resource, and answers with the     *)
(* kind of whatever the handler raised.                                     *)

\* The answers to the request of a tool, a body that is no JSON among them.
GetResponses == Responses \cup {"200 not JSON"}

\* The "id" arguments of the calls: numbers, and links to two servers.
CallArgs ==
    {[t |-> "int", v |-> 5],
     [t |-> "str", v |-> <<"1", "2">>],
     [t |-> "str", v |-> <<" ", "0", "0", "7">>]}
        \cup {[t |-> "str", v |-> o \o p] :
                o \in { <<>>,
                        <<"h", "t", "t", "p", ":", "/", "/", "a", "b">>,
                        <<"h", "t", "t", "p", ":", "/", "/", "c", "d">> },
                p \in { <<"/", "h", "o", "s", "t", "s", "/", "1", "2">>,
                        <<"/", "h", "o", "s", "t", "s", "/", "1", "2", ".", "h", "t", "m", "l">>,
                        <<"/", "h", "o", "s", "t", "s", "/">>,
                        <<>> }}

CallInit ==
    /\ BatchIdle
    /\ ClientIdle
    /\ HostIdle
    /\ PlaybookIdle
    /\ PerformanceIdle
    /\ env_server \in Servers
    /\ arg \in CallArgs
    /\ r_pc = "off"
    /\ r_op = "none"
    /\ r_out = [tag |-> "none"]
    /\ c_pc = "called"
    /\ c_tool \in IdTools
    /\ c_has_id \in BOOLEAN
    /\ c_outcome = "none"
    /\ c_reply = "none"

\* pk = extract_id(args["id"]): args["id"] raises KeyError without an "id",
\* extract_id raises ValueError for what it cannot resolve.
TC_ExtractId ==
    /\ c_pc = "called"
    /\ IF ~c_has_id
       THEN c_pc' = "done" /\ c_reply' = ReplyKind("KeyError")
       ELSE IF extract_id(arg).tag # "ok"
       THEN c_pc' = "done" /\ c_reply' = ReplyKind(extract_id(arg).tag)
       ELSE c_pc' = "fetching" /\ c_reply' = c_reply
    /\ UNCHANGED <<c_tool, c_has_id, c_outcome, notCall>>

\* data = await ara.get(<resource>, pk), answered with resp.
TC_Get(resp) ==
    /\ c_pc = "fetching"
    /\ c_outcome' = resp
    /\ c_reply' = IF RequestRaises(resp) # "none" THEN ReplyKind(RequestRaises(resp)) ELSE "ok"
    /\ c_pc' = "done"
    /\ UNCHANGED <<c_tool, c_has_id, notCall>>

CallNext ==
    \/ TC_ExtractId
    \/ \E resp \in GetResponses : TC_Get(resp)

SpecToolCall == CallInit /\ [][CallNext]_vars

----------------------------------------------------------------------------
(* ARAClient.batch_get: one _fetch_one task per element of pks, gathered   *)
(* with return_exceptions, then folded into a dict.                        *)

MaxBatch == 3
BatchIds == {1, 2, 3}

RECURSIVE SeqsUpTo(_, _)
SeqsUpTo(S, n) ==
    IF n = 0 THEN {<<>>}
    ELSE LET shorter == SeqsUpTo(S, n - 1)
         IN  shorter \cup {Append(s, x) : s \in {t \in shorter : Len(t) = n - 1}, x \in S}

\* The ids of pks in the order of their first occurrence.
RECURSIVE Distinct(_)
Distinct(pks) ==
    IF pks = <<>> THEN <<>>
    ELSE LET front == Distinct(SubSeq(pks, 1, Len(pks) - 1))
             last == pks[Len(pks)]
         IN  IF last \in Elems(front) THEN front ELSE Append(front, last)

FetchTargetsDistinct(pks) == Distinct(pks)

\* [_fetch_one(pk) for pk in pks]: the id each task fetches.
FetchTargets(pks) == pks

return_exceptions_off == FALSE

\* The return_exceptions argument of asyncio.gather.
return_exceptions == TRUE

\* A mapping with a placeholder entry.
PlaceholderReturn == [k \in {0} |-> RemoteRecord(0)]

\* return {} for an empty pks.
EmptyReturn == <<>>

Targets == FetchTargets(b_pks)
Tasks == DOMAIN b_task

Pending == [exc |-> "pending"]
Done(i) == b_task[i].st = "done"
Succeeded(i) == Done(i) /\ b_task[i].res.exc = "none"
Failed(i) == Done(i) /\ b_task[i].res.exc # "none"
NumDone == Cardinality({i \in Tasks : Done(i)})

\* What task i returns: the (pk, data) of _fetch_one, here keyed by the id
\* at the task's rank of completion instead of its own.
FetchOneByCompletion(i, data) == [exc |-> "none", pk |-> Targets[NumDone + 1], data |-> data]

\* return (pk, data)
FetchOne(i, data) == [exc |-> "none", pk |-> Targets[i], data |-> data]

\* The loop leaving at the first exception instead of skipping it.
FoldResultsUntilError(task) ==
    LET oks == {i \in DOMAIN task : \A j \in 1..i : task[j].res.exc = "none"}
        keys == {task[i].res.pk : i \in oks}
        LastOf(k) == CHOOSE i \in oks :
                        /\ task[i].res.pk = k
                        /\ \A j \in oks : task[j].res.pk = k => j <= i
    IN  [k \in keys |-> task[LastOf(k)].res.data]

\* The dict the loop over gather's results builds: exceptions skipped,
\* out[pk] = data in the order of the tasks, a later one overwriting.
FoldResults(task) ==
    LET oks == {i \in DOMAIN task : task[i].res.exc = "none"}
        keys == {task[i].res.pk : i \in oks}
        LastOf(k) == CHOOSE i \in oks :
                        /\ task[i].res.pk = k
                        /\ \A j \in oks : task[j].res.pk = k => j <= i
    IN  [k \in keys |-> task[LastOf(k)].res.data]

\* gather is over: with return_exceptions when every task is done, without
\* it also as soon as one task has raised.
GatherOver ==
    \/ \A i \in Tasks : Done(i)
    \/ ~return_exceptions /\ \E i \in Tasks : Failed(i)

BatchInit ==
    /\ ResolverIdle
    /\ HostIdle
    /\ PlaybookIdle
    /\ PerformanceIdle
    /\ CallIdle
    /\ ClientIdle
    /\ b_pc = "idle"
    /\ b_pks \in SeqsUpTo(BatchIds, MaxBatch)
    /\ b_task = <<>>
    /\ b_requests = 0
    /\ b_out = <<>>
    /\ b_reordered = FALSE

\* batch_get up to its await of gather: the early return, or the tasks.
BatchCall ==
    /\ b_pc = "idle"
    /\ IF b_pks = <<>>
       THEN /\ b_pc' = "returned"
            /\ b_out' = EmptyReturn
            /\ b_task' = <<>>
       ELSE /\ b_pc' = "gathering"
            /\ b_task' = [i \in 1..Len(Targets) |-> [st |-> "created", res |-> Pending]]
            /\ b_out' = b_out
    /\ UNCHANGED <<b_pks, b_requests, b_reordered, notBatch>>

\* Task i runs up to its await of client.get: the request is sent.
FetchStart(i) ==
    /\ i \in Tasks
    /\ b_task[i].st = "created"
    /\ b_task' = [b_task EXCEPT ![i].st = "inflight"]
    /\ b_requests' = b_requests + 1
    /\ UNCHANGED <<b_pc, b_pks, b_out, b_reordered, notBatch>>

\* The answer to task i's request arrives: the task ends with its
\* (pk, data) or with the exception _request raises.
FetchComplete(i, resp) ==
    /\ i \in Tasks
    /\ b_task[i].st = "inflight"
    /\ LET exc == RequestRaises(resp)
           res == IF exc = "none" THEN FetchOne(i, RemoteRecord(Targets[i]))
                  ELSE [exc |-> exc]
       IN  b_task' = [b_task EXCEPT ![i] = [st |-> "done", res |-> res]]
    /\ b_reordered' = (b_reordered \/ \E j \in Tasks : j < i /\ ~Done(j))
    /\ UNCHANGED <<b_pc, b_pks, b_requests, b_out, notBatch>>

\* gather hands its results to batch_get, which folds them and returns; an
\* exception gather lets through ends batch_get instead.
BatchReturn ==
    /\ b_pc = "gathering"
    /\ GatherOver
    /\ IF ~return_exceptions /\ \E i \in Tasks : Failed(i)
       THEN b_pc' = "raised" /\ b_out' = b_out
       ELSE b_pc' = "returned" /\ b_out' = FoldResults(b_task)
    /\ UNCHANGED <<b_pks, b_task, b_requests, b_reordered, notBatch>>

BatchNext ==
    \/ BatchCall
    \/ \E i \in 1..Len(b_pks) : FetchStart(i)
    \/ \E i \in 1..Len(b_pks), resp \in Responses : FetchComplete(i, resp)
    \/ BatchReturn

SpecBatch == BatchInit /\ [][BatchNext]_vars

----------------------------------------------------------------------------
(* The remote API as the pipelines see it.                                 *)

\* GET /api/v1/<kind>/ with a limit: the page and the count of all matches.
RemoteList(all, limit) ==
    [count |-> Len(all),
     results |-> SubSeq(all, 1, IF Len(all) < limit THEN Len(all) ELSE limit)]

\* The keys of what batch_get returns for pks when the fetches of the ids
\* in lost fail; each key is mapped to the record fetched for it.
BatchKeys(pks, lost) == Elems(pks) \ lost

\* The exceptions among the outcomes of several requests.
Raised(resps) == {RequestRaises(r) : r \in resps} \ {"none"}

----------------------------------------------------------------------------
(* handle_troubleshoot_host.                                               *)

HostListLimit == 50
DisplayCap == 10
MaxFetchFailures == 1

\* How many failed, and how many unreachable, results a host may have.
HostResultCounts == {0, 1, 9, 10, 11, 49, 50, 51, 75}

\* The ids of the host's results of each status, in the order of the API.
FailedIds(n) == [i \in 1..n |-> 2 * i - 1]
UnreachableIds(n) == [i \in 1..n |-> 2 * i]

\* all_failures[:10]
display_failures(all) == SubSeq(all, 1, IF Len(all) < DisplayCap THEN Len(all) ELSE DisplayCap)

\* The host record: its aggregate counters of failed and unreachable results.
RemoteHost == [failed |-> h_held.failed, unreachable |-> h_held.unreachable]

\* The report: the counters of the host record in the header, the count
\* found, one entry per displayed failure and the number not displayed.
HostReport(all, full_results) ==
    LET shown == display_failures(all)
    IN  [kind |-> "failures",
         header |-> RemoteHost,
         found |-> Len(all),
         entries |-> [i \in 1..Len(shown) |->
                        [id |-> shown[i],
                         detail |-> IF shown[i] \in DOMAIN full_results
                                    THEN "full" ELSE "could not fetch details"]],
         more |-> IF Len(all) > DisplayCap THEN Len(all) - DisplayCap ELSE 0]

HostInit ==
    /\ ResolverIdle
    /\ BatchIdle
    /\ PlaybookIdle
    /\ PerformanceIdle
    /\ CallIdle
    /\ ClientIdle
    /\ h_pc = "start"
    /\ h_held \in [failed : HostResultCounts, unreachable : HostResultCounts]
    /\ h_all = <<>>
    /\ h_answers = {}
    /\ h_reply = "none"
    /\ h_report = [kind |-> "none"]

\* host = await ara.get("hosts", pk)
TH_GetHost(resp) ==
    /\ h_pc = "start"
    /\ h_answers' = h_answers \cup {<<"get_host", resp>>}
    /\ IF RequestRaises(resp) # "none"
       THEN h_pc' = "done" /\ h_reply' = ReplyKind(RequestRaises(resp))
       ELSE h_pc' = "listing" /\ h_reply' = h_reply
    /\ UNCHANGED <<h_held, h_all, h_report, notHost>>

\* The two list calls gathered: an exception of either ends the handler;
\* otherwise the pages are concatenated, and an empty result is reported.
TH_ListResults(resp_failed, resp_unreachable) ==
    /\ h_pc = "listing"
    /\ h_answers' = h_answers \cup {<<"list_failed", resp_failed>>,
                                      <<"list_unreachable", resp_unreachable>>}
    /\ LET raised == Raised({resp_failed, resp_unreachable})
           failed_data == RemoteList(FailedIds(h_held.failed), HostListLimit)
           unreachable_data == RemoteList(UnreachableIds(h_held.unreachable), HostListLimit)
           all_failures == failed_data.results \o unreachable_data.results
       IN  IF raised # {}
           THEN /\ \E exc \in raised : h_reply' = ReplyKind(exc)
                /\ h_pc' = "done"
                /\ UNCHANGED <<h_all, h_report>>
           ELSE IF all_failures = <<>>
           THEN /\ h_report' = [kind |-> "no_failures", header |-> RemoteHost]
                /\ h_reply' = "ok"
                /\ h_pc' = "done"
                /\ UNCHANGED h_all
           ELSE /\ h_all' = all_failures
                /\ h_pc' = "batching"
                /\ UNCHANGED <<h_reply, h_report>>
    /\ UNCHANGED <<h_held, notHost>>

\* The batch fetch of the displayed failures comes back without the ids in
\* lost, and the report is built.
TH_Report(lost) ==
    /\ h_pc = "batching"
    /\ lost \subseteq Elems(display_failures(h_all))
    /\ Cardinality(lost) <= MaxFetchFailures
    /\ h_report' = HostReport(h_all, [k \in BatchKeys(display_failures(h_all), lost) |-> RemoteRecord(k)])
    /\ h_reply' = "ok"
    /\ h_pc' = "done"
    /\ h_answers' = h_answers \cup {<<"batch_results", "mapping">>}
    /\ UNCHANGED <<h_held, h_all, notHost>>

HostNext ==
    \/ \E resp \in Responses : TH_GetHost(resp)
    \/ \E rf, ru \in Responses : TH_ListResults(rf, ru)
    \/ \E lost \in SUBSET Elems(display_failures(h_all)) : TH_Report(lost)

SpecHost == HostInit /\ [][HostNext]_vars

----------------------------------------------------------------------------
(* handle_troubleshoot_playbook.                                           *)

PlaybookListLimit == 100
MaxFailures == 3

\* The failed results a playbook may hold: the name of the task, its file
\* and line (0: none), the host (0: none) and the ignore_errors flag.
ResultProfiles ==
    { [name |-> "A", file |-> 1, lineno |-> 3, host |-> 1, ignore_errors |-> FALSE],
      [name |-> "B", file |-> 1, lineno |-> 7, host |-> 2, ignore_errors |-> FALSE],
      [name |-> "A", file |-> 0, lineno |-> 0, host |-> 0, ignore_errors |-> FALSE],
      [name |-> "B", file |-> 2, lineno |-> 5, host |-> 1, ignore_errors |-> TRUE] }

\* The full record of result pk: its id and what the server holds for it.
RemoteResult(pk) ==
    [id |-> pk, name |-> t_held[pk].name, file |-> t_held[pk].file,
     lineno |-> t_held[pk].lineno, host |-> t_held[pk].host,
     ignore_errors |-> t_held[pk].ignore_errors]

\* The ids of the results the query matches: every failed one, or with
\* ignore_errors=False only those not ignored.
RECURSIVE Matching(_, _)
Matching(n, include_ignored) ==
    IF n = 0 THEN <<>>
    ELSE LET before == Matching(n - 1, include_ignored)
         IN  IF include_ignored \/ ~t_held[n].ignore_errors
             THEN Append(before, n) ELSE before

\* host_ids and file_ids, collected from the fetched full results.
HostIds(full_results) ==
    {full_results[k].host : k \in DOMAIN full_results} \ {0}

FileIds(full_results) ==
    {full_results[k].file :
        k \in {j \in DOMAIN full_results :
                  full_results[j].file # 0 /\ full_results[j].lineno # 0}}

\* An insertion that puts an item ahead of the items of the same count.
RECURSIVE InsertByCountAhead(_, _)
InsertByCountAhead(sorted, item) ==
    IF sorted = <<>> THEN <<item>>
    ELSE IF Head(sorted)[2] > item[2]
         THEN <<Head(sorted)>> \o InsertByCountAhead(Tail(sorted), item)
         ELSE <<item>> \o sorted

\* sorted(task_failures.items(), key=lambda x: -x[1]): a stable sort of the
\* (name, count) items, larger counts first.
RECURSIVE InsertByCount(_, _)
InsertByCount(sorted, item) ==
    IF sorted = <<>> THEN <<item>>
    ELSE IF Head(sorted)[2] >= item[2]
         THEN <<Head(sorted)>> \o InsertByCount(Tail(sorted), item)
         ELSE <<item>> \o sorted

RECURSIVE SortByCount(_)
SortByCount(items) ==
    IF items = <<>> THEN <<>>
    ELSE InsertByCount(SortByCount(SubSeq(items, 1, Len(items) - 1)), items[Len(items)])

\* task_failures: the count of each task name, in the order the names are
\* first met in full_results (the order its keys were inserted in).
TaskFailures(keys, full_results) ==
    LET names == Distinct([i \in 1..Len(keys) |-> full_results[keys[i]].name])
    IN  [i \in 1..Len(names) |->
            <<names[i], Cardinality({k \in 1..Len(keys) : full_results[keys[k]].name = names[i]})>>]

\* The code snippet of an entry whatever file_cache holds.
HasCodeUnchecked(full_result, file_cache) ==
    full_result.file # 0 /\ full_result.lineno # 0

\* if task_file and task_lineno: ... if file_id and file_id in file_cache
HasCode(full_result, file_cache) ==
    /\ full_result.file # 0
    /\ full_result.lineno # 0
    /\ full_result.file \in DOMAIN file_cache

\* The report of the failures: one entry per listed failure, the hosts
\* described and the summary.
PlaybookReport(failed_results, full_results, file_cache, host_cache) ==
    LET keys == SelectSeq(failed_results, LAMBDA k : k \in DOMAIN full_results)
        task_failures == TaskFailures(keys, full_results)
    IN  [kind |-> "failures",
         found |-> Len(failed_results),
         entries |-> [i \in 1..Len(failed_results) |->
            LET full_result == full_results[failed_results[i]]
            IN  [result |-> failed_results[i],
                 task |-> full_result.name,
                 host |-> full_result.host,
                 ignored |-> full_result.ignore_errors,
                 code |-> HasCode(full_result, file_cache)]],
         hosts |-> HostIds(full_results) \cap DOMAIN host_cache,
         total |-> Len(failed_results),
         by_task |-> IF Len(task_failures) > 1 THEN SortByCount(task_failures) ELSE <<>>]

PlaybookInit ==
    /\ ResolverIdle
    /\ BatchIdle
    /\ HostIdle
    /\ PerformanceIdle
    /\ CallIdle
    /\ ClientIdle
    /\ t_pc = "start"
    /\ t_include_ignored \in BOOLEAN
    /\ t_held \in SeqsUpTo(ResultProfiles, MaxFailures)
    /\ t_failed = <<>>
    /\ t_full = <<>>
    /\ t_gather = [files |-> "idle", hosts |-> "idle", file_cache |-> <<>>, host_cache |-> <<>>]
    /\ t_requests = {}
    /\ t_outcomes = {}
    /\ t_reply = "none"
    /\ t_report = [kind |-> "none"]

\* playbook = await ara.get("playbooks", pk)
TP_GetPlaybook(resp) ==
    /\ t_pc = "start"
    /\ t_requests' = t_requests \cup {"get_playbook"}
    /\ t_outcomes' = t_outcomes \cup {<<"get_playbook", resp>>}
    /\ IF RequestRaises(resp) # "none"
       THEN t_pc' = "done" /\ t_reply' = ReplyKind(RequestRaises(resp))
       ELSE t_pc' = "listing" /\ t_reply' = t_reply
    /\ UNCHANGED <<t_include_ignored, t_held, t_failed, t_full, t_gather, t_report, notPlaybook>>

\* The report with the hint whatever include_ignored is.
NoFailuresReportAlwaysHint(include_ignored) == [kind |-> "no_failures", hint |-> TRUE]

\* "No failures found.", and the hint to use include_ignored when it is off.
NoFailuresReport(include_ignored) == [kind |-> "no_failures", hint |-> ~include_ignored]

\* The list of the failed results, and the report when there is none.
TP_ListFailures(resp) ==
    /\ t_pc = "listing"
    /\ t_requests' = t_requests \cup {"list_results"}
    /\ t_outcomes' = t_outcomes \cup {<<"list_results", resp>>}
    /\ LET results_data == RemoteList(Matching(Len(t_held), t_include_ignored), PlaybookListLimit)
           failed_results == results_data.results
       IN  IF RequestRaises(resp) # "none"
           THEN /\ t_reply' = ReplyKind(RequestRaises(resp))
                /\ t_pc' = "done"
                /\ UNCHANGED <<t_failed, t_report>>
           ELSE IF failed_results = <<>>
           THEN /\ t_report' = NoFailuresReport(t_include_ignored)
                /\ t_reply' = "ok"
                /\ t_pc' = "done"
                /\ UNCHANGED t_failed
           ELSE /\ t_failed' = failed_results
                /\ t_pc' = "batching"
                /\ UNCHANGED <<t_reply, t_report>>
    /\ UNCHANGED <<t_include_ignored, t_held, t_full, t_gather, notPlaybook>>

\* The answers a fetch of a batch fails with.
BatchCauses == {"404", "TimeoutException"}

\* The answers the batch tag received: "200" for the ids it returned,
\* cause for the ids in lost.
BatchOutcomes(tag, ids, lost, cause) ==
    (IF ids \ lost # {} THEN {<<tag, "200">>} ELSE {})
        \cup (IF ids \cap lost # {} THEN {<<tag, cause>>} ELSE {})

\* full_results = await ara.batch_get("results", result_ids), which comes
\* back without the ids in lost, whose fetches were answered with cause.
TP_BatchResults(lost, cause) ==
    /\ t_pc = "batching"
    /\ lost \subseteq Elems(t_failed)
    /\ t_requests' = t_requests \cup {"batch_results"}
    /\ t_outcomes' = t_outcomes \cup BatchOutcomes("batch_results", Elems(t_failed), lost, cause)
    /\ t_full' = [k \in BatchKeys(t_failed, lost) |-> RemoteResult(k)]
    /\ t_pc' = "joining"
    /\ UNCHANGED <<t_include_ignored, t_held, t_failed, t_gather, t_reply, t_report, notPlaybook>>

gather_concurrent_off == FALSE

\* asyncio.gather starts the coroutines it is given together; otherwise the
\* second would start when the first has returned.
gather_concurrent == TRUE

\* file_cache, host_cache = await asyncio.gather(batch_get("files", ...),
\* batch_get("hosts", ...)): both batches are started.
TP_Gather ==
    /\ t_pc = "joining"
    /\ t_pc' = "gathering"
    /\ t_gather' = [t_gather EXCEPT !.files = "flying",
                                   !.hosts = IF gather_concurrent THEN "flying" ELSE "idle"]
    /\ t_requests' = t_requests
            \cup (IF FileIds(t_full) # {} THEN {"batch_files"} ELSE {})
            \cup (IF gather_concurrent /\ HostIds(t_full) # {} THEN {"batch_hosts"} ELSE {})
    /\ UNCHANGED <<t_include_ignored, t_held, t_failed, t_full, t_outcomes, t_reply, t_report,
                   notPlaybook>>

\* The files batch comes back without lost_files, whose fetches were
\* answered with cause.
TP_FilesReturn(lost_files, cause) ==
    /\ t_pc = "gathering"
    /\ t_gather.files = "flying"
    /\ lost_files \subseteq FileIds(t_full)
    /\ t_gather' = [t_gather EXCEPT !.files = "returned",
                                   !.file_cache = [k \in FileIds(t_full) \ lost_files |-> [id |-> k]],
                                   !.hosts = IF @ = "idle" THEN "flying" ELSE @]
    /\ t_requests' = t_requests
            \cup (IF t_gather.hosts = "idle" /\ HostIds(t_full) # {} THEN {"batch_hosts"} ELSE {})
    /\ t_outcomes' = t_outcomes \cup BatchOutcomes("batch_files", FileIds(t_full), lost_files, cause)
    /\ UNCHANGED <<t_pc, t_include_ignored, t_held, t_failed, t_full, t_reply, t_report, notPlaybook>>

\* The hosts batch comes back without lost_hosts, whose fetches were
\* answered with cause.
TP_HostsReturn(lost_hosts, cause) ==
    /\ t_pc = "gathering"
    /\ t_gather.hosts = "flying"
    /\ lost_hosts \subseteq HostIds(t_full)
    /\ t_gather' = [t_gather EXCEPT !.hosts = "returned",
                                   !.host_cache = [k \in HostIds(t_full) \ lost_hosts |-> [id |-> k]]]
    /\ t_outcomes' = t_outcomes \cup BatchOutcomes("batch_hosts", HostIds(t_full), lost_hosts, cause)
    /\ UNCHANGED <<t_pc, t_include_ignored, t_held, t_failed, t_full, t_requests, t_reply, t_report,
                   notPlaybook>>

\* The gather has both mappings and the entries are built:
\* full_results[result_id] raises KeyError for a listed failure whose full
\* record is missing.
TP_Display ==
    /\ t_pc = "gathering"
    /\ t_gather.files = "returned"
    /\ t_gather.hosts = "returned"
    /\ IF \E i \in 1..Len(t_failed) : t_failed[i] \notin DOMAIN t_full
       THEN /\ t_reply' = ReplyKind("KeyError")
            /\ t_report' = t_report
       ELSE /\ t_reply' = "ok"
            /\ t_report' = PlaybookReport(t_failed, t_full, t_gather.file_cache, t_gather.host_cache)
    /\ t_pc' = "done"
    /\ UNCHANGED <<t_include_ignored, t_held, t_failed, t_full, t_gather, t_requests, t_outcomes,
                   notPlaybook>>

PlaybookNext ==
    \/ \E resp \in Responses : TP_GetPlaybook(resp)
    \/ \E resp \in Responses : TP_ListFailures(resp)
    \/ \E lost \in SUBSET Elems(t_failed), cause \in BatchCauses : TP_BatchResults(lost, cause)
    \/ TP_Gather
    \/ \E lost_files \in SUBSET FileIds(t_full), cause \in BatchCauses :
          TP_FilesReturn(lost_files, cause)
    \/ \E lost_hosts \in SUBSET HostIds(t_full), cause \in BatchCauses :
          TP_HostsReturn(lost_hosts, cause)
    \/ TP_Display

SpecPlaybook == PlaybookInit /\ [][PlaybookNext]_vars

----------------------------------------------------------------------------
(* handle_analyze_performance: the data it reads.                          *)

RelatedLimit == 5
RunResultLimit == 25
OwnListLimit == 100
InconsistentCap == 5
DefaultTopN == 10
MaxRuns == 3
MaxSample == 3
MaxTipSample == 2
DefaultForks == 5
ForksTipBelow == 10
SlowModuleTenths == 300

\* A duration "H:MM:SS.f" is the sequence of its three parts, the seconds
\* counted in tenths; <<>> is None; a negative part is text that is no
\* number.  parse_duration_seconds gives tenths of a second.
parse_duration_seconds(duration) ==
    IF duration = <<>> THEN 0
    ELSE IF Len(duration) = 3 /\ \A i \in 1..3 : duration[i] >= 0
         THEN duration[1] * 36000 + duration[2] * 600 + duration[3]
         ELSE 0

\* A result of a related run: the name of its task and its duration.
RunResult(name, tenths) == [task |-> [name |-> name], duration |-> <<0, 0, tenths>>]

\* The related runs the server may hold: the declared duration, the
\* controller, the status and the results of each.
RunProfiles ==
    { [duration |-> <<0, 1, 0>>, controller |-> "c1", status |-> "completed",
       results |-> <<RunResult("A", 10)>>],
      [duration |-> <<0, 2, 5>>, controller |-> "c1", status |-> "failed",
       results |-> <<RunResult("A", 30), RunResult("B", 10)>>],
      [duration |-> <<>>, controller |-> "c2", status |-> "completed",
       results |-> <<RunResult("A", 1)>>],
      [duration |-> <<0, 30>>, controller |-> "c2", status |-> "completed",
       results |-> <<RunResult("A", 9)>>],
      [duration |-> <<0, 1, 0>>, controller |-> "c1", status |-> "completed",
       results |-> <<RunResult("A", 30), RunResult("A", 10)>>],
      [duration |-> <<0, 3, 0>>, controller |-> "c2", status |-> "completed",
       results |-> <<RunResult("B", 40), RunResult("A", 16)>>] }

TaskNames == {"A", "B"}

\* A full result of the playbook: task, host and duration.
OwnResult(task_id, action, host, tenths) ==
    [task |-> [id |-> task_id, name |-> action, action |-> action],
     host |-> [name |-> host], duration |-> <<0, 0, tenths>>]

OwnProfiles ==
    { OwnResult(1, "setup", "a", 200),
      OwnResult(1, "setup", "a", 150),
      OwnResult(1, "setup", "b", 150),
      OwnResult(2, "copy", "a", 50) }

\* order="-duration": the server lists the longest results first.
SortedByDuration(results) ==
    \A i \in 1..(Len(results) - 1) :
        parse_duration_seconds(results[i].duration) >= parse_duration_seconds(results[i + 1].duration)

Samples == {r \in SeqsUpTo(OwnProfiles, MaxSample) : SortedByDuration(r)}

TopNs == {0, 1, 2, DefaultTopN}

\* The arguments of the playbook: whether they hold "forks", and its value,
\* 0 standing for the values Python takes as false (None and 0).
NoForks == [declared |-> FALSE, forks |-> 0]
Arguments == {NoForks} \cup [declared : {TRUE}, forks : {0, 5, 9, 10, 50}]

\* Results for the advisor: modules of every rule and one of none, each
\* lasting 15.0 s or 30.1 s, two of them also 40.0 s.
TipProfiles ==
    { OwnResult(1, "setup", "a", 150), OwnResult(1, "setup", "a", 301),
      OwnResult(2, "gather_facts", "a", 150), OwnResult(2, "gather_facts", "a", 301),
      OwnResult(3, "yum", "a", 150), OwnResult(3, "yum", "a", 301),
      OwnResult(4, "shell", "a", 150), OwnResult(4, "shell", "a", 301),
      OwnResult(5, "template", "a", 150), OwnResult(5, "template", "a", 301),
      OwnResult(6, "debug", "a", 150), OwnResult(6, "debug", "a", 301),
      OwnResult(4, "shell", "a", 400), OwnResult(5, "template", "a", 400) }

TipSamples == {r \in SeqsUpTo(TipProfiles, MaxTipSample) : SortedByDuration(r)}

\* The worlds that exercise the advisor: no path, and every shape of
\* arguments and of module totals.
TipWorlds == [path : {FALSE}, runs : {<<>>}, sample : TipSamples, arguments : Arguments]

\* What the server may hold: many shapes of related runs with a sample of
\* one result, or few related runs with every shape of sample.
Worlds ==
    [path : {TRUE}, runs : SeqsUpTo(RunProfiles, MaxRuns),
     sample : {<<OwnResult(2, "copy", "a", 50)>>}, arguments : {NoForks}]
        \cup [path : {TRUE}, runs : SeqsUpTo({CHOOSE r \in RunProfiles : r.status = "failed"}, 2),
              sample : Samples, arguments : {NoForks}]
        \cup [path : {FALSE}, runs : {<<>>}, sample : Samples, arguments : {NoForks}]
        \cup TipWorlds

\* The related run i as the list of playbooks gives it.
RelatedRun(i) ==
    [id |-> i, duration |-> p_held.runs[i].duration,
     controller |-> p_held.runs[i].controller, status |-> p_held.runs[i].status]

\* The ids of the results of related run i, in the order of the API.
RunResultIds(i) == [j \in 1..Len(p_held.runs[i].results) |-> <<i, j>>]

\* The full record of a result of a related run.
RemoteRunResult(id) ==
    [id |-> id, task |-> p_held.runs[id[1]].results[id[2]].task,
     duration |-> p_held.runs[id[1]].results[id[2]].duration]

\* The full record of result k of the playbook.
RemoteOwnResult(k) ==
    [id |-> k, task |-> p_held.sample[k].task, host |-> p_held.sample[k].host,
     duration |-> p_held.sample[k].duration]

----------------------------------------------------------------------------
(* handle_analyze_performance: the cross-run analysis.                     *)

\* Which way the handler goes after the search for related runs.
CrossBranchFromOne(related_playbooks, related_count) ==
    IF Len(related_playbooks) > 0 THEN "cross"
    ELSE IF related_count <= 1 THEN "only_one_run" ELSE "no_path"

\* if len(related_playbooks) > 1 ... elif related_count <= 1 ... else ...
CrossBranch(related_playbooks, related_count) ==
    IF Len(related_playbooks) > 1 THEN "cross"
    ELSE IF related_count <= 1 THEN "only_one_run" ELSE "no_path"

cross_return_exceptions_off == FALSE

\* The return_exceptions argument of the gather of the per-run list calls.
cross_return_exceptions == TRUE

\* all_result_ids: the listed results of the first n related runs, run
\* after run, the runs whose list call failed left out.
RECURSIVE AllResultIds(_, _)
AllResultIds(rp_results_map, n) ==
    IF n = 0 THEN <<>>
    ELSE AllResultIds(rp_results_map, n - 1)
            \o (IF n \in DOMAIN rp_results_map THEN rp_results_map[n] ELSE <<>>)

\* all_run_durations: one entry per related run, fetched or not.
AllRunDurations(related_playbooks) ==
    [i \in 1..Len(related_playbooks) |->
        [id |-> related_playbooks[i].id,
         duration |-> parse_duration_seconds(related_playbooks[i].duration),
         controller |-> related_playbooks[i].controller,
         status |-> related_playbooks[i].status]]

\* task_times_aggregate: for each task name, in the order the names are
\* first met, the measurements (run, duration, controller) of the fetched
\* full results.
TaskTimesAggregate(related_playbooks, all_result_ids, full_rp_results) ==
    LET keys == SelectSeq(all_result_ids, LAMBDA k : k \in DOMAIN full_rp_results)
        names == Distinct([i \in 1..Len(keys) |-> full_rp_results[keys[i]].task.name])
        Of(name) == SelectSeq(keys, LAMBDA k : full_rp_results[k].task.name = name)
    IN  [i \in 1..Len(names) |->
            [name |-> names[i],
             measurements |->
                [j \in 1..Len(Of(names[i])) |->
                    [rp_id |-> Of(names[i])[j][1],
                     duration |-> parse_duration_seconds(full_rp_results[Of(names[i])[j]].duration),
                     controller |-> related_playbooks[Of(names[i])[j][1]].controller]]]]

RECURSIVE SumSeq(_)
SumSeq(q) == IF q = <<>> THEN 0 ELSE Head(q) + SumSeq(Tail(q))

MaxSeq(q) == CHOOSE x \in Elems(q) : \A y \in Elems(q) : y <= x
MinSeq(q) == CHOOSE x \in Elems(q) : \A y \in Elems(q) : x <= y

\* a > b as the floating-point arithmetic of the source decides it for
\* the exact values a and b: the sums and quotients compared are rounded,
\* so that exactly equal values compare as greater when the rounding went
\* up (1.6 - 1.0 is 0.6000000000000001).
FloatGreater(a, b, rounded_up) == a > b \/ (a = b /\ rounded_up)

\* The test without its floor on the average.
IsInconsistentNoFloor(durations, rounded_up) ==
    /\ Len(durations) >= 2
    /\ SumSeq(durations) > 0
    /\ FloatGreater(2 * Len(durations) * (MaxSeq(durations) - MinSeq(durations)),
                    SumSeq(durations), rounded_up)

\* len(measurements) >= 2 and avg > 1 and (max_dur - min_dur) / avg > 0.5,
\* with avg = sum / len, in tenths of a second and without division:
\* sum > 10 * len, and 2 * len * (max - min) > sum.
IsInconsistent(durations, rounded_up) ==
    /\ Len(durations) >= 2
    /\ FloatGreater(SumSeq(durations), 10 * Len(durations), rounded_up)
    /\ FloatGreater(2 * Len(durations) * (MaxSeq(durations) - MinSeq(durations)),
                    SumSeq(durations), rounded_up)

Durations(measurements) == [i \in 1..Len(measurements) |-> measurements[i].duration]

\* inconsistent_tasks.sort(key=avg, reverse=True): stable, larger averages
\* first; the averages sum/n are compared across the fractions.
RECURSIVE InsertByAvg(_, _)
InsertByAvg(sorted, item) ==
    IF sorted = <<>> THEN <<item>>
    ELSE IF Head(sorted).sum * item.n >= item.sum * Head(sorted).n
         THEN <<Head(sorted)>> \o InsertByAvg(Tail(sorted), item)
         ELSE <<item>> \o sorted

RECURSIVE SortByAvg(_)
SortByAvg(items) ==
    IF items = <<>> THEN <<>>
    ELSE InsertByAvg(SortByAvg(SubSeq(items, 1, Len(items) - 1)), items[Len(items)])

\* inconsistent_tasks, sorted: name, range and average of each flagged task.
InconsistentTasks(task_times_aggregate, rounded_up) ==
    LET flagged == SelectSeq(task_times_aggregate,
                             LAMBDA t : IsInconsistent(Durations(t.measurements), t.name \in rounded_up))
    IN  SortByAvg([i \in 1..Len(flagged) |->
            [name |-> flagged[i].name,
             min |-> MinSeq(Durations(flagged[i].measurements)),
             max |-> MaxSeq(Durations(flagged[i].measurements)),
             sum |-> SumSeq(Durations(flagged[i].measurements)),
             n |-> Len(flagged[i].measurements)]])

\* The names of the tasks whose average or relative range is exactly at
\* its threshold: those for which the rounding matters.
AtThreshold(task_times_aggregate) ==
    {task_times_aggregate[i].name : i \in
        {j \in 1..Len(task_times_aggregate) :
            LET d == Durations(task_times_aggregate[j].measurements)
            IN  \/ SumSeq(d) = 10 * Len(d)
                \/ 2 * Len(d) * (MaxSeq(d) - MinSeq(d)) = SumSeq(d)}}

\* The cross-run section of the report.
CrossReport(related_playbooks, all_result_ids, full_rp_results, rounded_up) ==
    LET task_times_aggregate == TaskTimesAggregate(related_playbooks, all_result_ids, full_rp_results)
        inconsistent_tasks == InconsistentTasks(task_times_aggregate, rounded_up)
    IN  [kind |-> "cross",
         history |-> AllRunDurations(related_playbooks),
         aggregate |-> task_times_aggregate,
         inconsistent |-> inconsistent_tasks,
         shown |-> SubSeq(inconsistent_tasks, 1,
                          IF Len(inconsistent_tasks) < InconsistentCap
                          THEN Len(inconsistent_tasks) ELSE InconsistentCap)]

----------------------------------------------------------------------------
(* handle_analyze_performance: the playbook's own slowest tasks.           *)

\* task_times with one more call of an action.
AddCall(task_times, action, duration_sec) ==
    IF action \in DOMAIN task_times
    THEN [task_times EXCEPT ![action] = [count |-> @.count + 1, total |-> @.total + duration_sec]]
    ELSE (action :> [count |-> 1, total |-> duration_sec]) @@ task_times

\* What the loop starts from: seen, shown (the entries displayed) and task_times.
LoopStart == [seen |-> {}, entries |-> <<>>, task_times |-> <<>>]

\* One pass with the cap tested before the time is tracked.
OwnStepCapFirst(acc, result_id, all_full_results, top_n) ==
    IF result_id \notin DOMAIN all_full_results THEN acc
    ELSE LET full_result == all_full_results[result_id]
             key == <<full_result.task.id, full_result.host.name>>
         IN  IF Len(acc.entries) >= top_n THEN acc
             ELSE IF key \in acc.seen
                  THEN [acc EXCEPT !.task_times =
                            AddCall(@, full_result.task.action, parse_duration_seconds(full_result.duration))]
                  ELSE [seen |-> acc.seen \cup {key},
                        entries |-> Append(acc.entries,
                                      [result |-> result_id, task_id |-> key[1], host_name |-> key[2]]),
                        task_times |-> AddCall(acc.task_times, full_result.task.action,
                                               parse_duration_seconds(full_result.duration))]

\* One pass without the test of seen.
OwnStepNoSeen(acc, result_id, all_full_results, top_n) ==
    IF result_id \notin DOMAIN all_full_results THEN acc
    ELSE LET full_result == all_full_results[result_id]
             key == <<full_result.task.id, full_result.host.name>>
             task_times == AddCall(acc.task_times, full_result.task.action,
                                   parse_duration_seconds(full_result.duration))
         IN  IF Len(acc.entries) >= top_n
             THEN [acc EXCEPT !.task_times = task_times]
             ELSE [seen |-> acc.seen \cup {key},
                   entries |-> Append(acc.entries,
                                 [result |-> result_id, task_id |-> key[1], host_name |-> key[2]]),
                   task_times |-> task_times]

\* One pass of the loop over results: a result without full record is
\* skipped; the time is tracked by action; then the entry is displayed
\* unless enough are shown or its (task, host) was seen.
OwnStep(acc, result_id, all_full_results, top_n) ==
    IF result_id \notin DOMAIN all_full_results THEN acc
    ELSE LET full_result == all_full_results[result_id]
             key == <<full_result.task.id, full_result.host.name>>
             task_times == AddCall(acc.task_times, full_result.task.action,
                                   parse_duration_seconds(full_result.duration))
         IN  IF Len(acc.entries) >= top_n
             THEN [acc EXCEPT !.task_times = task_times]
             ELSE IF key \in acc.seen
                  THEN [acc EXCEPT !.task_times = task_times]
                  ELSE [seen |-> acc.seen \cup {key},
                        entries |-> Append(acc.entries,
                                      [result |-> result_id, task_id |-> key[1], host_name |-> key[2]]),
                        task_times |-> task_times]

\* The loop over the first n results.
RECURSIVE OwnLoop(_, _, _, _)
OwnLoop(results, all_full_results, top_n, n) ==
    IF n = 0 THEN LoopStart
    ELSE OwnStep(OwnLoop(results, all_full_results, top_n, n - 1),
                 results[n], all_full_results, top_n)

\* The slowest-tasks section of the report.
OwnReport(results, all_full_results, top_n) ==
    LET end == OwnLoop(results, all_full_results, top_n, Len(results))
    IN  [kind |-> "slowest", entries |-> end.entries, task_times |-> end.task_times]

----------------------------------------------------------------------------
(* handle_analyze_performance: the optimization tips.                       *)

\* arguments.get("forks", 5) with 0 for an undeclared value.
ForksOfNoDefault(arguments) == arguments.forks

\* arguments.get("forks", 5)
ForksOf(arguments) == IF arguments.declared THEN arguments.forks ELSE DefaultForks

\* The modules whose total is 30 s or more.
SlowModulesFromThirty(task_times) ==
    {a \in DOMAIN task_times : task_times[a].total >= SlowModuleTenths}

\* slow_modules = {a for a, s in task_times.items() if s["total"] > 30}
SlowModules(task_times) ==
    {a \in DOMAIN task_times : task_times[a].total > SlowModuleTenths}

\* The modules of each rule.
FactModules == {"setup", "gather_facts"}
PackageModules == {"package", "yum", "apt", "dnf"}
CommandModules == {"command", "shell", "raw"}
FileModules == {"copy", "template"}

\* The tips of the rules, in the order of the if statements, and the two
\* generic tips when the list is empty.
Tips(arguments, task_times) ==
    LET forks == ForksOf(arguments)
        slow_modules == SlowModules(task_times)
        tips == (IF forks # 0 /\ forks < ForksTipBelow THEN <<"forks">> ELSE <<>>)
                    \o (IF slow_modules \cap FactModules # {} THEN <<"facts">> ELSE <<>>)
                    \o (IF slow_modules \cap PackageModules # {} THEN <<"packages">> ELSE <<>>)
                    \o (IF slow_modules \cap CommandModules # {} THEN <<"commands">> ELSE <<>>)
                    \o (IF slow_modules \cap FileModules # {} THEN <<"files">> ELSE <<>>)
    IN  IF tips = <<>> THEN <<"free", "pipelining">> ELSE tips

\* The slowest-tasks section with the tips that end the report.
OwnSection(results, all_full_results, top_n, arguments) ==
    LET own == OwnReport(results, all_full_results, top_n)
    IN  [kind |-> own.kind, entries |-> own.entries, task_times |-> own.task_times,
         tips |-> Tips(arguments, own.task_times)]

----------------------------------------------------------------------------
(* handle_analyze_performance as a state machine.                          *)

NoSection == [kind |-> "none"]
EmptyReport == [note |-> "none", cross |-> NoSection, own |-> NoSection]

PerformanceInit ==
    /\ ResolverIdle
    /\ BatchIdle
    /\ HostIdle
    /\ PlaybookIdle
    /\ CallIdle
    /\ ClientIdle
    /\ p_pc = "start"
    /\ p_held \in Worlds
    /\ p_top_n \in (IF Len(p_held.runs) > 2 \/ p_held.arguments.declared
                     THEN {DefaultTopN} ELSE TopNs)
    /\ p_related = <<>>
    /\ p_rp_results_map = <<>>
    /\ p_results = <<>>
    /\ p_all_full_results = <<>>
    /\ p_requests = {}
    /\ p_answers = {}
    /\ p_reply = "none"
    /\ p_report = EmptyReport

\* The exception is swallowed and the report returned.
PerformanceRaiseAsOk(exc) ==
    /\ p_pc' = "done"
    /\ p_reply' = "ok"

\* The handler ends with the exception exc: the router answers with its kind.
PerformanceRaise(exc) ==
    /\ p_pc' = "done"
    /\ p_reply' = ReplyKind(exc)

\* The handler goes on after the search for related runs: to the per-run
\* list calls, or past the cross-run analysis with a note.
AfterRelated(related_playbooks, related_count) ==
    LET branch == CrossBranch(related_playbooks, related_count)
    IN  IF branch = "cross"
        THEN p_pc' = "cross_list" /\ p_report' = p_report
        ELSE p_pc' = "own_list" /\ p_report' = [p_report EXCEPT !.note = branch]

\* playbook = await ara.get("playbooks", pk), and without a path the steps
\* up to the list of the playbook's own results.
AP_GetPlaybook(resp) ==
    /\ p_pc = "start"
    /\ p_answers' = p_answers \cup {<<"get_playbook", resp>>}
    /\ p_requests' = p_requests \cup {<<"get_playbook", 0>>}
    /\ IF RequestRaises(resp) # "none"
       THEN PerformanceRaise(RequestRaises(resp)) /\ p_report' = p_report
       ELSE /\ p_reply' = p_reply
            /\ IF p_held.path
               THEN p_pc' = "related" /\ p_report' = p_report
               ELSE AfterRelated(<<>>, 0)
    /\ UNCHANGED <<p_top_n, p_held, p_related, p_rp_results_map, p_results, p_all_full_results, notPerformance>>

\* related_data = await ara.list("playbooks", path=..., limit=5)
AP_ListRelated(resp) ==
    /\ p_pc = "related"
    /\ p_answers' = p_answers \cup {<<"list_related", resp>>}
    /\ p_requests' = p_requests \cup {<<"list_related", 0>>}
    /\ LET related_data == RemoteList([i \in 1..Len(p_held.runs) |-> RelatedRun(i)], RelatedLimit)
       IN  IF RequestRaises(resp) # "none"
           THEN /\ PerformanceRaise(RequestRaises(resp))
                /\ UNCHANGED <<p_related, p_report>>
           ELSE /\ p_related' = related_data.results
                /\ p_reply' = p_reply
                /\ AfterRelated(related_data.results, related_data.count)
    /\ UNCHANGED <<p_top_n, p_held, p_rp_results_map, p_results, p_all_full_results, notPerformance>>

\* The gather of the list calls of the related runs, those of the runs in
\* failed ending with the exception of resp, and the loop over the outcomes.
AP_ListRunResults(failed, resp) ==
    /\ p_pc = "cross_list"
    /\ failed \subseteq 1..Len(p_related)
    /\ Cardinality(failed) <= MaxFetchFailures
    /\ RequestRaises(resp) # "none"
    /\ p_requests' = p_requests \cup {<<"list_run", i>> : i \in 1..Len(p_related)}
    /\ IF ~cross_return_exceptions /\ failed # {}
       THEN /\ PerformanceRaise(RequestRaises(resp))
            /\ UNCHANGED p_rp_results_map
       ELSE /\ p_rp_results_map' =
                    [i \in (1..Len(p_related)) \ failed |->
                        RemoteList(RunResultIds(i), RunResultLimit).results]
            /\ p_pc' = "cross_batch"
            /\ p_reply' = p_reply
    /\ UNCHANGED <<p_answers, p_top_n, p_held, p_related, p_results, p_all_full_results, p_report, notPerformance>>

\* full_rp_results = await ara.batch_get("results", all_result_ids), which
\* comes back without the ids in lost, and the cross-run section, the
\* rounding going up for the tasks of rounded_up.
AP_CrossBatch(lost, rounded_up) ==
    /\ p_pc = "cross_batch"
    /\ LET all_result_ids == AllResultIds(p_rp_results_map, Len(p_related))
           full_rp_results == [k \in BatchKeys(all_result_ids, lost) |-> RemoteRunResult(k)]
       IN  /\ lost \subseteq Elems(all_result_ids)
           /\ Cardinality(lost) <= MaxFetchFailures
           /\ p_requests' = IF all_result_ids = <<>> THEN p_requests
                            ELSE p_requests \cup {<<"cross_batch", Len(all_result_ids)>>}
           /\ rounded_up \subseteq
                  AtThreshold(TaskTimesAggregate(p_related, all_result_ids, full_rp_results))
           /\ p_report' = [p_report EXCEPT !.cross =
                  CrossReport(p_related, all_result_ids, full_rp_results, rounded_up)]
    /\ p_pc' = "own_list"
    /\ UNCHANGED <<p_answers, p_top_n, p_held, p_related, p_rp_results_map, p_results, p_all_full_results,
                   p_reply, notPerformance>>

\* results_data = await ara.list("results", playbook=pk, limit=100), and
\* the return when there is no result.
AP_ListOwn(resp) ==
    /\ p_pc = "own_list"
    /\ p_answers' = p_answers \cup {<<"list_own", resp>>}
    /\ p_requests' = p_requests \cup {<<"list_own", 0>>}
    /\ LET results_data == RemoteList([k \in 1..Len(p_held.sample) |-> k], OwnListLimit)
       IN  IF RequestRaises(resp) # "none"
           THEN /\ PerformanceRaise(RequestRaises(resp))
                /\ UNCHANGED <<p_results, p_report>>
           ELSE IF results_data.results = <<>>
           THEN /\ p_report' = [p_report EXCEPT !.own = [kind |-> "no_results"]]
                /\ p_reply' = "ok"
                /\ p_pc' = "done"
                /\ UNCHANGED p_results
           ELSE /\ p_results' = results_data.results
                /\ p_pc' = "own_batch"
                /\ UNCHANGED <<p_reply, p_report>>
    /\ UNCHANGED <<p_top_n, p_held, p_related, p_rp_results_map, p_all_full_results, notPerformance>>

\* all_full_results = await ara.batch_get("results", ...), which comes back
\* without the ids in lost, the loop over results and the return.
AP_OwnBatch(lost) ==
    /\ p_pc = "own_batch"
    /\ lost \subseteq Elems(p_results)
    /\ Cardinality(lost) <= MaxFetchFailures
    /\ p_requests' = p_requests \cup {<<"own_batch", Len(p_results)>>}
    /\ p_all_full_results' = [k \in BatchKeys(p_results, lost) |-> RemoteOwnResult(k)]
    /\ p_report' = [p_report EXCEPT !.own =
            OwnSection(p_results, p_all_full_results', p_top_n, p_held.arguments)]
    /\ p_reply' = "ok"
    /\ p_pc' = "done"
    /\ UNCHANGED <<p_answers, p_top_n, p_held, p_related, p_rp_results_map, p_results, notPerformance>>

PerformanceNext ==
    \/ \E resp \in Responses : AP_GetPlaybook(resp)
    \/ \E resp \in Responses : AP_ListRelated(resp)
    \/ \E failed \in SUBSET (1..Len(p_related)), resp \in Responses : AP_ListRunResults(failed, resp)
    \/ \E lost \in SUBSET Elems(AllResultIds(p_rp_results_map, Len(p_related))),
          rounded_up \in SUBSET TaskNames : AP_CrossBatch(lost, rounded_up)
    \/ \E resp \in Responses : AP_ListOwn(resp)
    \/ \E lost \in SUBSET Elems(p_results) : AP_OwnBatch(lost)

SpecPerformance == PerformanceInit /\ [][PerformanceNext]_vars

----------------------------------------------------------------------------
(* The process and the handle of its client: main serves the tool calls,   *)
(* whose requests go through ARAClient._get_client, and returns.            *)

MaxRequests == 3

\* What a request may be answered.
ClientResponses == {"200", "404", "TimeoutException"}

\* A handle is created for every request.
NeedsClientAlways(client, open) == TRUE

\* if self._client is None or self._client.is_closed
NeedsClient(client, open) == client = 0 \/ client \notin open

ClientInit ==
    /\ ResolverIdle
    /\ BatchIdle
    /\ HostIdle
    /\ PlaybookIdle
    /\ PerformanceIdle
    /\ CallIdle
    /\ k_main = "serving"
    /\ k_client = 0
    /\ k_open = {}
    /\ k_created = 0
    /\ k_req = [i \in 1..MaxRequests |-> [pc |-> "idle", on |-> 0, answer |-> "none"]]

\* _request up to its first suspension: client = await self._get_client(),
\* which has no suspension of its own, and the start of client.get(...).
KR_Send(i) ==
    /\ k_main = "serving"
    /\ k_req[i].pc = "idle"
    /\ IF NeedsClient(k_client, k_open)
       THEN /\ k_created' = k_created + 1
            /\ k_client' = k_created + 1
            /\ k_open' = k_open \cup {k_created + 1}
       ELSE UNCHANGED <<k_created, k_client, k_open>>
    /\ k_req' = [k_req EXCEPT ![i] = [pc |-> "flying", on |-> k_client', answer |-> "none"]]
    /\ UNCHANGED <<k_main, notClient>>

\* The answer to client.get(...) arrives.
KR_Answer(i, resp) ==
    /\ k_main = "serving"
    /\ k_req[i].pc = "flying"
    /\ k_req' = [k_req EXCEPT ![i].pc = "done", ![i].answer = resp]
    /\ UNCHANGED <<k_main, k_client, k_open, k_created, notClient>>

\* server.run returns, the stdio_server context is left and main returns.
KM_Return ==
    /\ k_main = "serving"
    /\ k_main' = "terminated"
    /\ UNCHANGED <<k_client, k_open, k_created, k_req, notClient>>

ClientNext ==
    \/ \E i \in 1..MaxRequests : KR_Send(i)
    \/ \E i \in 1..MaxRequests, resp \in ClientResponses : KR_Answer(i, resp)
    \/ KM_Return

SpecClient == ClientInit /\ [][ClientNext]_vars

----------------------------------------------------------------------------
(* The three pipelines side by side: a call of troubleshoot_host, of        *)
(* troubleshoot_playbook or of analyze_performance.                         *)

\* The worlds of analyze_performance with at most two related runs and one
\* result.
PipelineWorlds ==
    {w \in Worlds : Len(w.runs) <= 2 /\ Len(w.sample) <= 1 /\ ~w.arguments.declared}

PipelinesInit ==
    \/ HostInit
    \/ PlaybookInit
    \/ /\ ResolverIdle
       /\ BatchIdle
       /\ HostIdle
       /\ PlaybookIdle
       /\ CallIdle
       /\ ClientIdle
       /\ p_pc = "start"
       /\ p_held \in PipelineWorlds
       /\ p_top_n = DefaultTopN
       /\ p_related = <<>>
       /\ p_rp_results_map = <<>>
       /\ p_results = <<>>
       /\ p_all_full_results = <<>>
       /\ p_requests = {}
       /\ p_answers = {}
       /\ p_reply = "none"
       /\ p_report = EmptyReport

PipelinesNext ==
    \/ HostNext
    \/ PlaybookNext
    \/ PerformanceNext

SpecPipelines == PipelinesInit /\ [][PipelinesNext]_vars

----------------------------------------------------------------------------
(* Properties of batch_get.                                                *)

BatchOver == b_pc \in {"returned", "raised"}

\* The ids of the input of which some fetch succeeded.
SucceededIds == {b_pks[i] : i \in {j \in Tasks : Succeeded(j)}}

\* C1: whichever fetches fail, with whatever error, batch_get does not raise
\* and returns a mapping whose keys are exactly the ids whose fetch
\* succeeded, each mapped to the record the remote holds under that id.
C1_BatchReturnsExactlyTheSucceeded ==
    /\ b_pc # "raised"
    /\ b_pc = "returned" =>
          /\ DOMAIN b_out = SucceededIds
          /\ \A k \in DOMAIN b_out : b_out[k] = RemoteRecord(k)

\* batch_get of 1, 2, 3 returned keys 1 and 3 after the fetch of 2 timed out.
C1_Witness ==
    /\ b_pc = "returned"
    /\ b_pks = <<1, 2, 3>>
    /\ b_task[2].res.exc = "TimeoutError"
    /\ DOMAIN b_out = {1, 3}

\* C2, as stated: the number of fetches batch_get issues equals the number
\* of distinct ids of its input.
C2_OneFetchPerDistinctId ==
    b_pc = "returned" => b_requests = Cardinality(Elems(b_pks))

\* C2, amended: batch_get issues one fetch per element of its input,
\* repeated ids included, so the number of fetches equals the length of the
\* input; only the keys of the returned mapping are coalesced.
C2_OneFetchPerElement ==
    b_pc = "returned" =>
        /\ b_requests = Len(b_pks)
        /\ Cardinality(DOMAIN b_out) <= Cardinality(Elems(b_pks))

\* batch_get of 1, 1, 2 returned after 3 fetches.
C2_Witness ==
    /\ b_pc = "returned"
    /\ b_pks = <<1, 1, 2>>
    /\ b_requests = 3
    /\ DOMAIN b_out = {1, 2}

\* C5: in every order of completion each finished fetch carries the id it
\* was issued for, and the mapping returned stores under each id the record
\* fetched for that id.
C5_OutcomeKeptWithItsId ==
    /\ \A i \in Tasks : Succeeded(i) =>
          /\ b_task[i].res.pk = b_pks[i]
          /\ b_task[i].res.data = RemoteRecord(b_pks[i])
    /\ b_pc = "returned" =>
          \A i \in Tasks : Succeeded(i) =>
              /\ b_pks[i] \in DOMAIN b_out
              /\ b_out[b_pks[i]] = RemoteRecord(b_pks[i])

\* batch_get returned both records after its fetches completed out of order.
C5_Witness ==
    /\ b_pc = "returned"
    /\ b_reordered
    /\ b_pks = <<2, 1>>
    /\ DOMAIN b_out = {1, 2}

\* C6: batch_get returns only after every fetch it issued has completed,
\* and while it waits no fetch is held back by the state of a sibling: one
\* not yet sent can be sent, one in flight can complete.
C6_SiblingsRunToCompletion ==
    /\ BatchOver => \A i \in Tasks : Done(i)
    /\ b_pc = "gathering" =>
          \A i \in Tasks :
              /\ b_task[i].st = "created" => ENABLED FetchStart(i)
              /\ b_task[i].st = "inflight" => ENABLED FetchComplete(i, "200")

\* batch_get returned after one fetch timed out before an earlier one of
\* the list succeeded.
C6_Witness ==
    /\ b_pc = "returned"
    /\ b_reordered
    /\ Len(b_pks) = 2
    /\ b_task[2].res.exc = "TimeoutError"
    /\ Succeeded(1)

\* C7: batch_get of an empty input returns an empty mapping and sends no
\* request.
C7_EmptyBatchSendsNothing ==
    (b_pks = <<>> /\ b_pc # "idle") =>
        /\ b_pc = "returned"
        /\ b_out = <<>>
        /\ b_task = <<>>
        /\ b_requests = 0

\* batch_get of an empty input has returned.
C7_Witness == b_pc = "returned" /\ b_pks = <<>> /\ b_out = <<>>

----------------------------------------------------------------------------
(* Properties of troubleshoot_playbook.                                    *)

\* The listed failures whose full record the batch fetch did not bring.
MissingFull == {t_failed[i] : i \in 1..Len(t_failed)} \ DOMAIN t_full

\* C3: when the batch fetch of the full record of one or more listed
\* failures fails, troubleshoot_playbook still returns a report with one
\* entry per listed failure and does not end in an error.
C3_MissingRecordStillReported ==
    (t_pc = "done" /\ MissingFull # {}) =>
        /\ t_reply = "ok"
        /\ t_report.kind = "failures"
        /\ Len(t_report.entries) = Len(t_failed)

\* troubleshoot_playbook ended after the full record of one of two listed
\* failures was missing from the batch.
C3_Witness ==
    /\ t_pc = "done"
    /\ Len(t_failed) = 2
    /\ MissingFull = {2}

----------------------------------------------------------------------------
(* Properties of troubleshoot_host.                                        *)

\* C4: troubleshoot_host shows detail for at most the first 10 of the
\* concatenated failed and unreachable results, and the total it reports is
\* the number of failed plus unreachable results the server holds for the
\* host, whatever that number is.
C4_HostReportsTrueTotal ==
    (h_pc = "done" /\ h_report.kind = "failures") =>
        /\ Len(h_report.entries) <= DisplayCap
        /\ \A i \in 1..Len(h_report.entries) : h_report.entries[i].id = h_all[i]
        /\ h_report.found = h_held.failed + h_held.unreachable

\* The part of C4 the code keeps: at most the first 10 are shown in detail.
C4_Witness ==
    /\ h_pc = "done" /\ h_report.kind = "failures"
    /\ h_held.failed = 51
    /\ Len(h_report.entries) = DisplayCap

----------------------------------------------------------------------------
(* Properties of the resolver.                                             *)

\* The text of the argument as parse_ara_url and extract_id look at it.
ArgText == IF arg.t = "str" THEN strip(arg.v) ELSE <<>>

BareNumeric == arg.t = "str" /\ ArgText # <<>> /\ \A i \in 1..Len(ArgText) : ArgText[i] \in Digits

\* The number a string of decimal digits denotes, by place value.
RECURSIVE Pow10(_)
Pow10(n) == IF n = 0 THEN 1 ELSE 10 * Pow10(n - 1)

RECURSIVE PlaceValue(_)
PlaceValue(s) ==
    IF s = <<>> THEN 0
    ELSE DigitValue(Head(s)) * Pow10(Len(s) - 1) + PlaceValue(Tail(s))

\* The host of a netloc: what precedes the port.
Host(netloc) ==
    LET i == Find(netloc, ":")
    IN  lower(IF i = 0 THEN netloc ELSE SubSeq(netloc, 1, i - 1))

ArgUrl == urlparse(ArgText)
ServerUrl == urlparse(get_web_base)

HasOrigin == ArgUrl.scheme # <<>> /\ ArgUrl.netloc # <<>>
SameSchemeAndHost ==
    /\ lower(ArgUrl.scheme) = lower(ServerUrl.scheme)
    /\ Host(ArgUrl.netloc) = Host(ServerUrl.netloc)

ParseDone == r_pc = "done" /\ r_op = "parse_ara_url"
ToolDone == r_pc = "done" /\ r_op \in IdTools

\* C8, as stated: a bare numeric string is always rejected with InvalidInput
\* and never resolved to an id, by parse_ara_url and by every tool that
\* resolves its id argument through extract_id.
C8_BareNumericAlwaysRejected ==
    BareNumeric =>
        /\ ParseDone => r_out = ValueError("NumericId")
        /\ ToolDone => r_out.tag = "reply" /\ r_out.kind = "Invalid input"

\* C8, amended: parse_ara_url rejects a bare numeric string with the
\* numeric-id ValueError; a tool that resolves its id argument through
\* extract_id accepts it and fetches its own resource under the number the
\* digits denote.
C8_BareNumericParseRejectsToolsResolve ==
    BareNumeric =>
        /\ ParseDone => r_out = ValueError("NumericId")
        /\ ToolDone =>
              /\ r_out.tag = "fetch"
              /\ r_out.resource = ToolResource[r_op]
              /\ r_out.id = PlaceValue(ArgText)

\* A tool was given a bare numeric string with leading zeros and resolved it.
C8_Witness ==
    /\ ToolDone /\ BareNumeric
    /\ Len(ArgText) > 1 /\ ArgText[1] = "0"
    /\ r_out.tag = "fetch" /\ r_out.id = 7

\* C9, as stated: parse_ara_url returns a (kind, id) only for an input whose
\* scheme and host are both present and equal, case-insensitively, to the
\* configured server's.
C9_AcceptedOnlyWithSameOrigin ==
    (ParseDone /\ r_out.tag = "ok") => (HasOrigin /\ SameSchemeAndHost)

\* C9, amended: parse_ara_url returns a (kind, id) only for an input that has
\* no scheme or no host, whose origin is then not checked, or whose scheme
\* and host equal, case-insensitively, the configured server's.
C9_AcceptedOnlyUncheckedOrSameOrigin ==
    (ParseDone /\ r_out.tag = "ok") => (~HasOrigin \/ SameSchemeAndHost)

\* A scheme-less link to a host other than the configured one was accepted.
C9_Witness ==
    /\ ParseDone /\ r_out.tag = "ok"
    /\ ArgUrl.scheme = <<>>
    /\ ArgUrl.netloc # <<>> /\ Host(ArgUrl.netloc) # Host(ServerUrl.netloc)

\* C10: for a URL with a scheme and a host of which at least one differs
\* from the configured server's, parse_ara_url raises the origin mismatch,
\* whether or not the path is a valid "/<kind>/<digits>[.html]" path.
C10_ForeignOriginAlwaysMismatch ==
    (ParseDone /\ HasOrigin /\ ~SameSchemeAndHost) => r_out = ValueError("OriginMismatch")

\* A URL of another host with a valid path was refused for its origin.
C10_Witness ==
    /\ ParseDone /\ HasOrigin
    /\ Host(ArgUrl.netloc) # Host(ServerUrl.netloc)
    /\ MatchPath(rstrip(ArgUrl.path, {"/"})).matched
    /\ r_out = ValueError("OriginMismatch")

----------------------------------------------------------------------------
(* Properties of the resolver: URLs of the configured server.              *)

\* Paths of the form "/<kind>/<id>", each with the kind and the id it names.
NamedPaths ==
    { [text |-> <<"/", "p", "l", "a", "y", "b", "o", "o", "k", "s", "/", "5">>,
       kind |-> KindText["playbooks"], id |-> 5],
      [text |-> <<"/", "h", "o", "s", "t", "s", "/", "1", "2">>,
       kind |-> KindText["hosts"], id |-> 12],
      [text |-> <<"/", "f", "i", "l", "e", "s", "/", "0", "0", "7">>,
       kind |-> KindText["files"], id |-> 7],
      [text |-> <<"/", "p", "_", "1", "/", "3", "0">>,
       kind |-> <<"p", "_", "1">>, id |-> 30] }

\* The origins of the inputs that equal the configured server's.
ServerOrigins == {o \in Origins : o # <<>> /\ lower(o) = lower(Origin(ServerUrl))}

BuildDone == r_pc = "done" /\ r_op = "build_url"

\* C11, as stated: parse_ara_url applied to a URL of the configured origin
\* with path "/<kind>/<id>", with or without ".html", a query string and a
\* fragment, returns that kind and id; and applied to the URL a builder
\* returned for an id it returns the builder's kind and that id.
C11_ParseInvertsSameOriginUrls ==
    /\ ParseDone =>
          \A o \in ServerOrigins, p \in NamedPaths, x \in {<<>>, DotHtml},
             q \in Queries, f \in Fragments :
              ArgText = o \o p.text \o x \o q \o f => r_out = Ok(p.kind, p.id)
    /\ BuildDone => r_out.parsed = Ok(KindText[r_out.kind], r_out.pk)

\* With a server configured under a path, the URL file_url built for file 12
\* and line 3 was refused as unparsable.
C11_Witness ==
    /\ BuildDone
    /\ ServerUrl.path # <<>>
    /\ r_out.kind = "files" /\ r_out.pk = 12 /\ r_out.line = 3
    /\ r_out.parsed = ValueError("Unparsable")

\* C12: a tool given a URL fetches the resource that URL names: the kind
\* parsed from the path is a known resource kind and is the kind the tool
\* fetches under the id parsed with it.
C12_ToolFetchesTheKindOfTheUrl ==
    (ToolDone /\ r_out.tag = "fetch" /\ r_out.parsed # <<>>) =>
        /\ r_out.parsed \in {KindText[k] : k \in Kinds}
        /\ r_out.parsed = KindText[r_out.resource]

\* get_playbook was given the URL of host 12 and went on to fetch playbook 12.
C12_Witness ==
    /\ ToolDone /\ r_op = "get_playbook"
    /\ r_out.tag = "fetch"
    /\ r_out.parsed = KindText["hosts"]
    /\ r_out.resource = "playbooks" /\ r_out.id = 12

----------------------------------------------------------------------------
(* Properties of analyze_performance.                                      *)

CrossDone == p_report.cross.kind = "cross"

\* The tasks of task_times_aggregate, and whether one is in inconsistent_tasks.
Aggregated == {p_report.cross.aggregate[i] : i \in 1..Len(p_report.cross.aggregate)}
Flagged(name) ==
    \E i \in 1..Len(p_report.cross.inconsistent) : p_report.cross.inconsistent[i].name = name

\* In tenths of a second: the mean of d is above (at least) 1.0 s and the
\* range of d is above (at least) half the mean.
StrictlyAbove(d) ==
    /\ SumSeq(d) > 10 * Len(d)
    /\ 2 * Len(d) * (MaxSeq(d) - MinSeq(d)) > SumSeq(d)
AtLeast(d) ==
    /\ SumSeq(d) >= 10 * Len(d)
    /\ 2 * Len(d) * (MaxSeq(d) - MinSeq(d)) >= SumSeq(d)

\* What holds of the three sets of durations the claim names.
NamedDurations(t) ==
    /\ Durations(t.measurements) = <<10, 10, 30>> => Flagged(t.name)
    /\ Durations(t.measurements) = <<10, 10, 10>> => ~Flagged(t.name)
    /\ Durations(t.measurements) = <<1, 1, 9>> => ~Flagged(t.name)

OwnDone == p_pc = "done" /\ p_reply = "ok" /\ p_report.own.kind = "slowest"

\* The results of the sample whose full record was fetched, in the order of
\* the sample.
Fetched == SelectSeq(p_results, LAMBDA k : k \in DOMAIN p_all_full_results)

\* The durations, in tenths of a second, of the results ks of the sample.
HeldDurations(ks) == [i \in 1..Len(ks) |-> p_held.sample[ks[i]].duration[3]]

\* The bucket that holds, for each action of the results ks, their number
\* and the sum of their durations.
BucketOf(ks) ==
    [a \in {p_held.sample[ks[i]].task.action : i \in 1..Len(ks)} |->
        LET of_a == SelectSeq(ks, LAMBDA k : p_held.sample[k].task.action = a)
        IN  [count |-> Len(of_a), total |-> SumSeq(HeldDurations(of_a))]]

\* The sum of the counts of the actions S of a bucket.
RECURSIVE SumCounts(_, _)
SumCounts(task_times, S) ==
    IF S = {} THEN 0
    ELSE LET a == CHOOSE x \in S : TRUE
         IN  task_times[a].count + SumCounts(task_times, S \ {a})

\* C14, as stated: every result of the sample listed for the playbook is
\* folded into the module-time bucket exactly once, whatever top_n is: the
\* counts sum to the size of the sample and the bucket is the one of the
\* whole sample.
C14_BucketHoldsTheWholeSample ==
    OwnDone =>
        /\ SumCounts(p_report.own.task_times, DOMAIN p_report.own.task_times) = Len(p_results)
        /\ p_report.own.task_times = BucketOf(p_results)

\* C14, amended: every result of the sample whose full record the batch
\* fetch returned is folded into the module-time bucket exactly once,
\* whatever top_n is: the counts sum to the number of fetched records and
\* the bucket is the one of the fetched results, a value in which top_n
\* has no part.
C14_BucketHoldsTheFetchedSample ==
    OwnDone =>
        /\ SumCounts(p_report.own.task_times, DOMAIN p_report.own.task_times) = Len(Fetched)
        /\ p_report.own.task_times = BucketOf(Fetched)

\* With top_n = 1 and a sample of 3 results of which one was not fetched,
\* one entry was displayed and two results were counted.
C14_Witness ==
    /\ OwnDone
    /\ p_top_n = 1
    /\ Len(p_results) = 3 /\ Len(Fetched) = 2
    /\ Len(p_report.own.entries) = 1
    /\ SumCounts(p_report.own.task_times, DOMAIN p_report.own.task_times) = 2

\* The (task, host) pair of result k, and the fetched results with a pair.
PairOf(k) == <<p_held.sample[k].task.id, p_held.sample[k].host.name>>
FetchedWith(pair) == SelectSeq(Fetched, LAMBDA k : PairOf(k) = pair)

\* C15: no two displayed entries have the same (task_id, host_name), at most
\* top_n entries are displayed, and each of the fetched results that share
\* a pair is counted, with its duration, in the bucket of its action.
C15_DisplayDeduplicatedBucketNot ==
    OwnDone =>
        /\ Len(p_report.own.entries) <= p_top_n
        /\ \A i, j \in 1..Len(p_report.own.entries) :
              i # j => <<p_report.own.entries[i].task_id, p_report.own.entries[i].host_name>>
                        # <<p_report.own.entries[j].task_id, p_report.own.entries[j].host_name>>
        /\ \A k \in Elems(Fetched) :
              LET same == FetchedWith(PairOf(k))
                  bucket == p_report.own.task_times[p_held.sample[k].task.action]
              IN  /\ bucket.count >= Len(same)
                  /\ bucket.total >= SumSeq(HeldDurations(same))

\* Two fetched results of the same task on the same host gave one displayed
\* entry, with room for more, and two calls in the bucket.
C15_Witness ==
    /\ OwnDone
    /\ p_top_n = DefaultTopN
    /\ Len(Fetched) = 2
    /\ PairOf(Fetched[1]) = PairOf(Fetched[2])
    /\ Len(p_report.own.entries) = 1
    /\ p_report.own.task_times["setup"] = [count |-> 2, total |-> 350]

----------------------------------------------------------------------------
(* Properties of troubleshoot_playbook: the report without failures.       *)

\* The query for the failed results matched nothing and the handler is over.
NoFailuresDone ==
    /\ t_pc = "done" /\ t_reply = "ok"
    /\ Matching(Len(t_held), t_include_ignored) = <<>>

\* C16: with zero failures troubleshoot_playbook returns the no-failures
\* report without any batch fetch, and the report holds the hint to retry
\* with include_ignored exactly when include_ignored is false.
C16_NoFailuresReportAndHint ==
    NoFailuresDone =>
        /\ t_report.kind = "no_failures"
        /\ t_report.hint <=> ~t_include_ignored
        /\ t_requests = {"get_playbook", "list_results"}
        /\ t_full = <<>>

\* The only failure held was an ignored one, include_ignored was false, and
\* the report came with the hint.
C16_Witness ==
    /\ NoFailuresDone
    /\ Len(t_held) = 1 /\ t_held[1].ignore_errors
    /\ ~t_include_ignored
    /\ t_report = [kind |-> "no_failures", hint |-> TRUE]

\* The replies of the tool router.
RouterReplies ==
    {"ok", "Not found", "Connection error", "Timeout",
     "Authentication/authorization error", "Invalid input", "API error",
     "Server error", "Unexpected error"}

CallDone == c_pc = "done"

\* The identifier of the call is one extract_id refuses: a URL of another
\* origin, or text that is neither a number nor a URL of the known layout.
IdentifierRefused == c_has_id /\ extract_id(arg).tag # "ok"

C18_NotFoundOnlyAfter404 ==
    (t_pc = "done" /\ t_reply = "Not found") => \E a \in t_outcomes : a[2] = "404"

\* C18: a call has answered "Not found" although every list and fetch was
\* answered 200 or timed out: the full record of a listed failure is missing
\* from the batch mapping.
C18_NotFoundWithout404 ==
    /\ t_pc = "done"
    /\ t_reply = "Not found"
    /\ \A a \in t_outcomes : a[2] \in {"200", "TimeoutException"}
    /\ "batch_results" \in t_requests


\* The per-run list calls have been gathered.
RunListsGathered == p_pc \in {"cross_batch", "own_list", "own_batch", "done"} /\ <<"list_run", 1>> \in p_requests

\* The related runs whose result-list call failed.
FailedRuns == (1..Len(p_related)) \ DOMAIN p_rp_results_map

\* The number of results listed for the runs in runs.
RECURSIVE ListedCount(_)
ListedCount(runs) ==
    IF runs = {} THEN 0
    ELSE LET i == CHOOSE r \in runs : TRUE
         IN  Len(RunResultIds(i)) + ListedCount(runs \ {i})

\* C19: once the list calls of the related runs have been gathered, whichever
\* of them failed, a list call was sent for every related run, the results
\* of every run whose call succeeded are held, and the call has not ended
\* unless a later request (the list of the playbook's own results) was sent;
\* in the cross-run section no measurement belongs to a run whose list call
\* failed, the batch fetch asked for all the results of the other runs, and
\* the history has every related run, failed or not, with the seconds of its
\* declared duration.
C19_FailedRunListDoesNotAbort ==
    RunListsGathered =>
        /\ \A i \in 1..Len(p_related) : <<"list_run", i>> \in p_requests
        /\ \A i \in DOMAIN p_rp_results_map : p_rp_results_map[i] = RunResultIds(i)
        /\ p_pc = "done" => <<"list_own", 0>> \in p_requests
        /\ CrossDone =>
              /\ \A t \in Aggregated : \A j \in 1..Len(t.measurements) :
                    t.measurements[j].rp_id \notin FailedRuns
              /\ ListedCount(DOMAIN p_rp_results_map) > 0 =>
                    <<"cross_batch", ListedCount(DOMAIN p_rp_results_map)>> \in p_requests
              /\ Len(p_report.cross.history) = Len(p_related)
              /\ \A i \in 1..Len(p_related) :
                    /\ p_report.cross.history[i].id = i
                    /\ p_report.cross.history[i].duration =
                          parse_duration_seconds(p_held.runs[i].duration)

\* C19: the cross-run section was built after the list call of one run
\* failed: that run, declared 0:02:00.5, is in the history with 1205 tenths
\* of a second, and another run has contributed a measurement.
C19_Witness ==
    /\ CrossDone
    /\ \E i \in FailedRuns :
          /\ p_held.runs[i].duration = <<0, 2, 5>>
          /\ p_report.cross.history[i].duration = 1205
    /\ \E t \in Aggregated : \E j \in 1..Len(t.measurements) :
          t.measurements[j].rp_id \in DOMAIN p_rp_results_map


\* The handler is past the search for related runs.
BranchTaken ==
    \/ p_pc \in {"cross_list", "cross_batch", "own_list", "own_batch"}
    \/ p_pc = "done" /\ <<"list_own", 0>> \in p_requests

\* The requests of the cross-run analysis sent so far.
CrossRequests == {q \in p_requests : q[1] \in {"list_run", "cross_batch"}}

\* C20: past the search for related runs, with 2 related runs or more the
\* handler lists the results of every run and builds the cross-run section
\* before it lists the playbook's own results, and gives no note; with one
\* related run or none it sends no request of the cross-run analysis, builds
\* no cross-run section, gives the note "Only 1 run found ... Cannot
\* establish patterns across multiple runs." and goes on to the playbook's
\* own results, whose slowest tasks are reported when the call ends well
\* with a result in the sample.
C20_CrossRunExactlyFromTwoRuns ==
    BranchTaken =>
        /\ Len(p_related) >= 2 =>
              /\ p_report.note = "none"
              /\ p_pc # "cross_list" => \A i \in 1..Len(p_related) : <<"list_run", i>> \in p_requests
              /\ p_pc \notin {"cross_list", "cross_batch"} => CrossDone
        /\ Len(p_related) <= 1 =>
              /\ CrossRequests = {}
              /\ ~CrossDone
              /\ p_report.note = "only_one_run"
              /\ p_pc \in {"own_list", "own_batch", "done"}
              /\ (p_pc = "done" /\ p_reply = "ok" /\ p_held.sample # <<>>) =>
                    p_report.own.kind = "slowest"

\* C20: a call for a playbook with exactly one related run has ended with
\* the note, without a cross-run request, and with its own slowest tasks.
C20_Witness ==
    /\ p_pc = "done"
    /\ p_reply = "ok"
    /\ Len(p_related) = 1
    /\ CrossRequests = {}
    /\ p_report.note = "only_one_run"
    /\ p_report.own.kind = "slowest"
    /\ Len(p_report.own.entries) > 0


\* The bucket of module times of a finished report, and the tips.
Bucket == p_report.own.task_times
ReportedTips == p_report.own.tips

\* A module of ms has a total above 30 s.
SlowOneOf(ms) == \E a \in DOMAIN Bucket \cap ms : Bucket[a].total > 300

\* The tips of the rules in the order of their declaration, and the place of
\* a tip in it.
RuleOrder == <<"forks", "facts", "packages", "commands", "files">>
PlaceOf(tip) == CHOOSE i \in 1..Len(RuleOrder) : RuleOrder[i] = tip
Tipped(tip) == \E i \in 1..Len(ReportedTips) : ReportedTips[i] = tip
Fallback == <<"free", "pipelining">>

\* C21: in a finished report the tips of the rules that fired stand in the
\* order parallelism, fact gathering, packages, commands, files, each once;
\* the tip of a module rule is there exactly when one of the rule's modules
\* has a total above 30 s; and the tips are the two generic ones exactly
\* when no rule fired.
C21_TipsInRuleOrder ==
    OwnDone =>
        /\ ReportedTips # Fallback =>
              /\ \A i \in 1..Len(ReportedTips) : \E k \in 1..Len(RuleOrder) : RuleOrder[k] = ReportedTips[i]
              /\ \A i, j \in 1..Len(ReportedTips) :
                    i < j => PlaceOf(ReportedTips[i]) < PlaceOf(ReportedTips[j])
        /\ Tipped("facts") <=> SlowOneOf({"setup", "gather_facts"})
        /\ Tipped("packages") <=> SlowOneOf({"package", "yum", "apt", "dnf"})
        /\ Tipped("commands") <=> SlowOneOf({"command", "shell", "raw"})
        /\ Tipped("files") <=> SlowOneOf({"copy", "template"})
        /\ ReportedTips = Fallback <=> \A k \in 1..Len(RuleOrder) : ~Tipped(RuleOrder[k])
        /\ ReportedTips # <<>>

\* C21: a report gives the fact-gathering tip before the file-transfer tip
\* although the file-transfer module took longer (40.0 s against 30.1 s).
C21_Witness ==
    /\ OwnDone
    /\ "setup" \in DOMAIN Bucket
    /\ "template" \in DOMAIN Bucket
    /\ Bucket["setup"].total = 301
    /\ Bucket["template"].total = 400
    /\ ReportedTips = <<"facts", "files">>

\* The forks value is one Python takes as false, or is 10 or more.
ForksSilent == p_held.arguments.declared /\ (p_held.arguments.forks = 0 \/ p_held.arguments.forks >= 10)

\* C29 as written: without a declared forks value the parallelism tip is
\* given and the generic tips are not, and the generic tips are given only
\* when the declared forks value is at least 10 or null/zero and no module
\* total is above 30 s.
C29_FallbackOnlyWithoutSlowModule ==
    OwnDone =>
        /\ ~p_held.arguments.declared => (Tipped("forks") /\ ReportedTips # Fallback)
        /\ ReportedTips = Fallback =>
              (ForksSilent /\ \A a \in DOMAIN Bucket : Bucket[a].total <= 300)

\* C29: without a declared forks value the parallelism tip is given and the
\* generic tips are not, and the generic tips are given only when the
\* declared forks value is at least 10 or null/zero and no module of a rule
\* has a total above 30 s; a module of no rule may have one.
C29_FallbackOnlyWithoutSlowRuleModule ==
    OwnDone =>
        /\ ~p_held.arguments.declared => (Tipped("forks") /\ ReportedTips # Fallback)
        /\ ReportedTips = Fallback =>
              /\ ForksSilent
              /\ ~SlowOneOf({"setup", "gather_facts", "package", "yum", "apt", "dnf",
                             "command", "shell", "raw", "copy", "template"})

\* C29: a playbook without a forks value has a report whose only tip is the
\* parallelism tip, no module being slow.
C29_Witness ==
    /\ OwnDone
    /\ ~p_held.arguments.declared
    /\ ReportedTips = <<"forks">>
    /\ \A a \in DOMAIN Bucket : Bucket[a].total <= 300


\* C28: past the search for related runs, a playbook without a path has
\* caused no list of related runs and has the note that no path is available
\* (and not the note that only 1 run was found), and that note is given to
\* no playbook with a path.
C28_NoPathNote ==
    BranchTaken =>
        /\ ~p_held.path => (<<"list_related", 0>> \notin p_requests /\ p_report.note = "no_path")
        /\ p_report.note = "no_path" => ~p_held.path

\* C28: the report of a playbook without a path has ended with the note
\* "Only 1 run found for this playbook path", no list of related runs sent.
C28_OnlyOneRunNoteWithoutPath ==
    /\ p_pc = "done"
    /\ p_reply = "ok"
    /\ ~p_held.path
    /\ <<"list_related", 0>> \notin p_requests
    /\ p_report.note = "only_one_run"

\* The related runs the measurements of a task come from.
RunsOf(t) == {t.measurements[j].rp_id : j \in 1..Len(t.measurements)}

\* C30: every task flagged as inconsistent has measurements of two related
\* runs or more.
C30_FlaggedTaskSpansTwoRuns ==
    CrossDone =>
        \A t \in Aggregated : Flagged(t.name) => Cardinality(RunsOf(t)) >= 2

\* C30: a task is flagged whose measurements (3.0 s and 1.0 s) all come from
\* one related run.
C30_FlaggedWithinOneRun ==
    /\ CrossDone
    /\ \E t \in Aggregated :
          /\ Flagged(t.name)
          /\ Cardinality(RunsOf(t)) = 1
          /\ Len(t.measurements) = 2


\* The files batch, or the hosts batch, has been started.
GatherStarted == t_gather.files # "idle" \/ t_gather.hosts # "idle"
BothReturned == t_gather.files = "returned" /\ t_gather.hosts = "returned"

\* C24: the files batch and the hosts batch of troubleshoot_playbook are
\* started only once the results batch has come back, the one is started
\* whenever the other is (neither waits for the other's return), and the
\* entries are built, the call ending with its report or its error, only
\* when both have come back.
C24_HostsAndFilesBatchesTogether ==
    /\ GatherStarted => ("batch_results" \in t_requests /\ t_pc \in {"gathering", "done"})
    /\ t_gather.files # "idle" <=> t_gather.hosts # "idle"
    /\ (t_pc = "done" /\ GatherStarted) => BothReturned
    /\ t_report.kind = "failures" => BothReturned
    /\ ~BothReturned => t_gather.files = "idle" \/ t_pc = "gathering"

\* C24: the hosts batch, the second of the gather, has come back with a host
\* while the files batch, which has a file to fetch, is still in flight.
C24_Witness ==
    /\ t_pc = "gathering"
    /\ t_gather.hosts = "returned"
    /\ t_gather.files = "flying"
    /\ t_gather.host_cache # <<>>
    /\ "batch_files" \in t_requests

\* The entries were built from the full records of all the listed failures.
DisplayedAll == t_pc = "done" /\ BothReturned /\ MissingFull = {}

\* C26: when the full records of all the listed failures were fetched, the
\* call ends well with one entry per listed failure, in their order, each
\* with the task and host of its own record; an entry has its code context
\* exactly when its record names a file and a line and that file was
\* fetched, whatever the other entries lack, and the hosts described are
\* those named by a record and fetched.
C26_EntriesDegradeGracefully ==
    DisplayedAll =>
        /\ t_reply = "ok"
        /\ t_report.kind = "failures"
        /\ Len(t_report.entries) = Len(t_failed)
        /\ \A i \in 1..Len(t_failed) :
              LET held == t_held[t_failed[i]]
                  entry == t_report.entries[i]
              IN  /\ entry.result = t_failed[i]
                  /\ entry.task = held.name
                  /\ entry.host = held.host
                  /\ entry.code <=> /\ held.file # 0
                                    /\ held.lineno # 0
                                    /\ held.file \in DOMAIN t_gather.file_cache
        /\ t_report.hosts = {t_held[t_failed[i]].host : i \in 1..Len(t_failed)}
                                \cap DOMAIN t_gather.host_cache

\* C26: a report has an entry without host and file, an entry whose file
\* was not fetched, and an entry with its code context.
C26_Witness ==
    /\ DisplayedAll
    /\ t_reply = "ok"
    /\ \E i, j, k \in 1..Len(t_report.entries) :
          /\ t_report.entries[i].host = 0 /\ ~t_report.entries[i].code
          /\ t_held[t_failed[j]].file # 0 /\ ~t_report.entries[j].code
          /\ t_report.entries[k].code
    /\ \E h \in {t_held[t_failed[i]].host : i \in 1..Len(t_failed)} \ {0} : h \notin t_report.hosts

\* The names of the listed failures, and the place where a name is first met.
FailedNames == [i \in 1..Len(t_failed) |-> t_held[t_failed[i]].name]
FirstMet(name) == CHOOSE i \in 1..Len(t_failed) :
                     /\ FailedNames[i] = name
                     /\ \A j \in 1..(i - 1) : FailedNames[j] # name
CountOf(name) == Cardinality({i \in 1..Len(t_failed) : FailedNames[i] = name})

RECURSIVE SumOfCounts(_)
SumOfCounts(items) == IF items = <<>> THEN 0 ELSE Head(items)[2] + SumOfCounts(Tail(items))

\* C27: the summary of a report lists each task name of the failures once
\* with the number of its failures, larger counts first and, among equal
\* counts, the name met first in the list of failures first; the counts sum
\* to the total the report gives; with a single task name the report gives
\* the total alone.
C27_SummarySortedStably ==
    (t_pc = "done" /\ t_report.kind = "failures") =>
        LET by_task == t_report.by_task
        IN  /\ by_task = <<>> <=> Cardinality(Elems(FailedNames)) = 1
            /\ by_task # <<>> =>
                  /\ {by_task[i][1] : i \in 1..Len(by_task)} = Elems(FailedNames)
                  /\ \A i \in 1..Len(by_task) : by_task[i][2] = CountOf(by_task[i][1])
                  /\ \A i, j \in 1..Len(by_task) :
                        i < j => \/ by_task[i][2] > by_task[j][2]
                                 \/ /\ by_task[i][2] = by_task[j][2]
                                    /\ FirstMet(by_task[i][1]) < FirstMet(by_task[j][1])
                  /\ SumOfCounts(by_task) = t_report.total
            /\ t_report.total = Len(t_failed)

\* C27: the failures are of two tasks with as many failures each, B met
\* first: the summary gives B, then A.
C27_Witness ==
    /\ t_pc = "done"
    /\ t_report.kind = "failures"
    /\ Len(t_report.by_task) = 2
    /\ t_report.by_task[1][2] = t_report.by_task[2][2]
    /\ t_report.by_task[1][1] = "B"


\* The kind the caller is told for a failing answer.
FailureKind(resp) ==
    CASE resp \in {"ConnectError", "RequestError"} -> "Connection error"
      [] resp = "TimeoutException" -> "Timeout"
      [] resp \in {"401", "403"} -> "Authentication/authorization error"
      [] resp = "404" -> "Not found"
      [] resp \in {"500", "503"} -> "Server error"
      [] OTHER -> "API error"

\* The place of a request in its pipeline.
Rank(tag) ==
    CASE tag \in {"get_host", "get_playbook"} -> 1
      [] tag \in {"list_failed", "list_unreachable", "list_results", "list_related"} -> 2
      [] tag \in {"batch_results", "list_run"} -> 3
      [] tag \in {"batch_files", "batch_hosts", "cross_batch"} -> 4
      [] tag = "list_own" -> 5
      [] OTHER -> 6

\* The failing answers to the requests that are not part of a batch nor of
\* the captured per-run lists, for each pipeline.
Single == {"get_host", "list_failed", "list_unreachable", "get_playbook", "list_results",
           "list_related", "list_own"}
FailedSingle(answers) == {a \in answers : a[1] \in Single /\ a[2] # "200"}

\* C25: in each of the three pipelines, once a single (non-batched) fetch
\* has received a failing answer the call has ended with the error kind of
\* that answer (of one of the two when both list calls of troubleshoot_host
\* fail), no report has been returned, and every request sent is that one or
\* one that precedes or accompanies it in the pipeline.
C25_SingleFetchFailureEndsTheCall ==
    /\ \A a \in FailedSingle(h_answers) :
          /\ h_pc = "done"
          /\ h_reply \in {FailureKind(b[2]) : b \in FailedSingle(h_answers)}
          /\ h_report.kind = "none"
          /\ \A b \in h_answers : Rank(b[1]) <= Rank(a[1])
    /\ \A a \in FailedSingle(t_outcomes) :
          /\ t_pc = "done"
          /\ t_reply = FailureKind(a[2])
          /\ t_report.kind = "none"
          /\ \A q \in t_requests : Rank(q) <= Rank(a[1])
    /\ \A a \in FailedSingle(p_answers) :
          /\ p_pc = "done"
          /\ p_reply = FailureKind(a[2])
          /\ p_report.own.kind = "none"
          /\ \A q \in p_requests : Rank(q[1]) <= Rank(a[1])

\* C25: analyze_performance has ended with "Server error" after its list of
\* related runs was answered 503, the playbook fetched before it.
C25_Witness ==
    /\ p_pc = "done"
    /\ <<"get_playbook", "200">> \in p_answers
    /\ <<"list_related", "503">> \in p_answers
    /\ p_reply = "Server error"
    /\ p_requests = {<<"get_playbook", 0>>, <<"list_related", 0>>}


\* The requests that have been sent.
SentRequests == {i \in DOMAIN k_req : k_req[i].pc # "idle"}

\* C22: whatever the order in which the requests start and are answered, at
\* most one handle has been created, and exactly one once a request was
\* sent; every request sent went on the handle of the client, which is open;
\* and no second handle exists beside an open one.
C22_OneHandleWhileOpen ==
    /\ k_created <= 1
    /\ Cardinality(k_open) <= 1
    /\ SentRequests # {} => k_created = 1
    /\ \A i \in SentRequests : k_req[i].on = k_client /\ k_req[i].on \in k_open

\* C22: all the requests are in flight, none answered, on one handle.
C22_Witness ==
    /\ k_req # <<>>
    /\ \A i \in DOMAIN k_req : k_req[i].pc = "flying"
    /\ k_created = 1

\* C23: when main has returned no handle is open.
C23_NoOpenHandleAtExit ==
    k_main = "terminated" => k_open = {}

\* C23: main has returned and the handle created for the requests, all
\* answered, is still open.
C23_HandleOpenAtExit ==
    /\ k_main = "terminated"
    /\ k_open # {}
    /\ \A i \in DOMAIN k_req : k_req[i].pc = "done"


====
